---- MODULE Spec2Model ----
(***************************************************************************)
(* SKEMA RAJA auto check-in: the calendar guard (utils.js), the page       *)
(* classifier of the attempt executor (checkin.js), the flat-file stores   *)
(* and dashboard routes (server.js) and the two run loops (index.js        *)
(* runCheckin, server.js runCheckin).                                      *)
(***************************************************************************)
EXTENDS Integers, Sequences, FiniteSets, TLC

VARIABLES
    now,          \* current instant: whole hours since 2025-01-01T00:00Z
    calResult,    \* outcome of the last working-day evaluation
    page,         \* page shown after submit: [content, url, title, time]
    outcome,      \* Outcome returned by the classifier for `page`
    shots,        \* prefixes handed to saveScreenshot, in call order
    logsFile,     \* logs.json: sequence of log entries
    logsView,     \* list returned by the last GET /api/logs
    logOps,       \* [n, last, cleared]: log requests served so far
    configFile,   \* config.json: field -> value, Absent when not stored
    configOps,    \* number of config requests served so far
    lastConfig,   \* [before, body, after] of the last POST /api/config
    usersFile,    \* users.json: [status, list], list of employee records
    lastUserOp,   \* [op, nip, before] of the last roster request
    logWritable,  \* FALSE while writes to logs.json fail (EACCES, ENOSPC)
    faults,       \* number of times logWritable has changed
    run,          \* the run loops, one record per RunIds, see RunIdle
    att,          \* one performCheckin call followed step by step, see NoAttempt
    ntf,          \* one sendWhatsAppNotification call, see NoNotify
    sched         \* one schedule-label resolution, see NoSchedule

vars == << now, calResult, page, outcome, shots, logsFile, logsView, logOps,
           configFile, configOps, lastConfig, usersFile, lastUserOp,
           logWritable, faults, run, att, ntf, sched >>

calVars   == << now, calResult >>
pageVars  == << page, outcome, shots >>
logVars   == << logsFile, logsView, logOps >>
cfgVars   == << configFile, configOps, lastConfig >>
userVars  == << usersFile, lastUserOp >>
runVars   == << logWritable, faults, run >>
auxVars   == << att, ntf, sched >>

Null == "null"            \* JavaScript null / undefined / key not present
Truthy(v) == v \notin {Null, "", "false"}

Min(S) == CHOOSE x \in S : \A y \in S : x <= y

(***************************************************************************)
(*                       utils.js: calendar helpers                        *)
(***************************************************************************)

\* HOLIDAYS, as <<year, month, day>> for the zero-padded 'YYYY-MM-DD' strings
HOLIDAYS ==
    << <<2025,1,1>>,  <<2025,1,29>>, <<2025,1,30>>, <<2025,3,29>>,
       <<2025,3,30>>, <<2025,3,31>>, <<2025,4,1>>,  <<2025,4,18>>,
       <<2025,5,1>>,  <<2025,5,12>>, <<2025,5,29>>, <<2025,6,1>>,
       <<2025,6,6>>,  <<2025,6,27>>, <<2025,8,17>>, <<2025,9,5>>,
       <<2025,12,25>>,
       <<2026,1,1>>,  <<2026,1,18>>, <<2026,2,17>>, <<2026,3,20>>,
       <<2026,3,21>>, <<2026,4,3>>,  <<2026,5,1>>,  <<2026,5,14>>,
       <<2026,5,27>>, <<2026,6,1>>,  <<2026,6,17>>, <<2026,8,17>>,
       <<2026,8,26>>, <<2026,12,25>> >>

\* TIMEZONE = 'Asia/Makassar': WITA is UTC+8 all year, no daylight saving
TIMEZONE == 8

\* instant 0 is 2025-01-01T00:00Z, a Wednesday (getDay() = 3)
Epoch == [year |-> 2025, weekday |-> 3]

IsLeap(y) == (y % 4 = 0 /\ y % 100 # 0) \/ y % 400 = 0
DaysInYear(y) == IF IsLeap(y) THEN 366 ELSE 365
DaysInMonth(y, m) ==
    IF m = 2 THEN (IF IsLeap(y) THEN 29 ELSE 28)
    ELSE IF m \in {4, 6, 9, 11} THEN 30 ELSE 31

RECURSIVE YearOf(_, _)
YearOf(y, d) == IF d < DaysInYear(y) THEN <<y, d>> ELSE YearOf(y + 1, d - DaysInYear(y))

RECURSIVE MonthOf(_, _, _)
MonthOf(y, m, d) ==
    IF d < DaysInMonth(y, m) THEN <<y, m, d + 1>> ELSE MonthOf(y, m + 1, d - DaysInMonth(y, m))

\* the calendar date of day number d (days since 2025-01-01)
CivilFromDays(d) == LET yd == YearOf(Epoch.year, d) IN MonthOf(yd[1], 1, yd[2])

\* wall-clock fields of instant t in TIMEZONE, what toLocaleString renders
WitaDayNumber(t) == (t + TIMEZONE) \div 24
WitaHour(t) == (t + TIMEZONE) % 24

\* new Date().toLocaleDateString('en-CA', {timeZone}) : 'YYYY-MM-DD'
TodayString(t) == CivilFromDays(WitaDayNumber(t))

\* Date.prototype.getDay() of the date parsed back from the WITA wall clock
GetDay(t) == (Epoch.weekday + WitaDayNumber(t)) % 7

Includes(seq, x) == \E k \in 1..Len(seq) : seq[k] = x

isHoliday(t) == Includes(HOLIDAYS, TodayString(t))

isWeekendFriSun(t) == LET day == GetDay(t) IN day = 0 \/ day = 5
isWeekend(t) == LET day == GetDay(t) IN day = 0 \/ day = 6

\* index.js runCheckin, the two guards in the order the code evaluates them
GuardAlwaysWorking(t) == "working"
GuardResult(t) ==
    IF isWeekend(t) THEN "weekend"
    ELSE IF isHoliday(t) THEN "holiday"
    ELSE "working"

(***************************************************************************)
(*           checkin.js performCheckin: classification of the page         *)
(***************************************************************************)

SuccessMarkers ==
    { <<"B","e","r","h","a","s","i","l">>,
      <<"b","e","r","h","a","s","i","l">>,
      <<"S","u","k","s","e","s">>,
      <<"s","u","k","s","e","s">>,
      <<"S","e","l","a","m","a","t">>,
      <<"t","e","r","c","a","t","a","t">>,
      <<"D","a","t","a"," ","A","b","s","e","n","s","i">>,
      <<"C","h","e","c","k"," ","O","u","t">>,
      <<"M","I","T","R","A">> }
SuccessUrlMarkers ==
    { <<"/","h","o","m","e">>,
      <<"/","d","a","s","h","b","o","a","r","d">> }
AlreadyMarkers ==
    { <<"s","u","d","a","h"," ","a","b","s","e","n">>,
      <<"S","u","d","a","h"," ","A","b","s","e","n">>,
      <<"s","u","d","a","h"," ","t","e","r","c","a","t","a","t">>,
      <<"s","u","d","a","h"," ","m","e","l","a","k","u","k","a","n">> }
InvalidMarkers ==
    { <<"s","a","l","a","h">>,
      <<"S","a","l","a","h">>,
      <<"i","n","v","a","l","i","d">>,
      <<"I","n","v","a","l","i","d">> }
TooEarlyMarkers ==
    { <<"b","e","l","u","m"," ","w","a","k","t","u","n","y","a">>,
      <<"t","i","d","a","k"," ","d","a","l","a","m"," ","j","a","m">> }
LokasiMarker == <<"l","o","k","a","s","i">>
TidakMarker == <<"t","i","d","a","k">>

\* String.prototype.includes on strings held as sequences of characters
StrIncludes(s, m) ==
    \E k \in 0..(Len(s) - Len(m)) : SubSeq(s, k + 1, k + Len(m)) = m

IncludesAny(s, M) == \E m \in M : StrIncludes(s, m)

Msg(text, arg) == [text |-> text, arg |-> arg]

\* the five keyword tests, in source order
MatchSuccess(content, url) ==
    IncludesAny(content, SuccessMarkers) \/ IncludesAny(url, SuccessUrlMarkers)
MatchAlready(content) == IncludesAny(content, AlreadyMarkers)
MatchInvalid(content) == IncludesAny(content, InvalidMarkers)
MatchTooEarly(content) == IncludesAny(content, TooEarlyMarkers)
MatchLocation(content) == StrIncludes(content, LokasiMarker) /\ StrIncludes(content, TidakMarker)

ClassifyInvalidFirst(content, url, title, checkinTime) ==
    IF MatchInvalid(content)
    THEN [success |-> FALSE, message |-> Msg("NIP atau Password salah", ""), checkinTime |-> Null]
    ELSE IF MatchSuccess(content, url)
    THEN [success |-> TRUE,
          message |-> IF Truthy(checkinTime) THEN Msg("Check-in berhasil! (t)", checkinTime)
                      ELSE Msg("Check-in berhasil!", ""),
          checkinTime |-> checkinTime]
    ELSE IF MatchAlready(content)
    THEN [success |-> TRUE,
          message |-> IF Truthy(checkinTime) THEN Msg("Sudah check-in (t)", checkinTime)
                      ELSE Msg("Sudah check-in sebelumnya", ""),
          checkinTime |-> checkinTime]
    ELSE IF MatchTooEarly(content)
    THEN [success |-> FALSE, message |-> Msg("Belum waktunya check-in", ""), checkinTime |-> Null]
    ELSE IF MatchLocation(content)
    THEN [success |-> FALSE, message |-> Msg("Masalah lokasi/koordinat", ""), checkinTime |-> Null]
    ELSE [success |-> FALSE, message |-> Msg("Response tidak dikenali: ", title), checkinTime |-> Null]

\* the if / else-if chain that builds `result`
Classify(content, url, title, checkinTime) ==
    IF MatchSuccess(content, url)
    THEN [success |-> TRUE,
          message |-> IF Truthy(checkinTime) THEN Msg("Check-in berhasil! (t)", checkinTime)
                      ELSE Msg("Check-in berhasil!", ""),
          checkinTime |-> checkinTime]
    ELSE IF MatchAlready(content)
    THEN [success |-> TRUE,
          message |-> IF Truthy(checkinTime) THEN Msg("Sudah check-in (t)", checkinTime)
                      ELSE Msg("Sudah check-in sebelumnya", ""),
          checkinTime |-> checkinTime]
    ELSE IF MatchInvalid(content)
    THEN [success |-> FALSE, message |-> Msg("NIP atau Password salah", ""), checkinTime |-> Null]
    ELSE IF MatchTooEarly(content)
    THEN [success |-> FALSE, message |-> Msg("Belum waktunya check-in", ""), checkinTime |-> Null]
    ELSE IF MatchLocation(content)
    THEN [success |-> FALSE, message |-> Msg("Masalah lokasi/koordinat", ""), checkinTime |-> Null]
    ELSE [success |-> FALSE, message |-> Msg("Response tidak dikenali: ", title), checkinTime |-> Null]

\* the final else branch is the only one that calls saveScreenshot
IsUnrecognized(content, url) ==
    ~ ( MatchSuccess(content, url) \/ MatchAlready(content) \/ MatchInvalid(content)
        \/ MatchTooEarly(content) \/ MatchLocation(content) )

(***************************************************************************)
(*                server.js: the rolling log (logs.json)                   *)
(***************************************************************************)

LogCap == 100             \* logs.slice(-100)

\* Array.prototype.slice(-n)
SliceFirst(s, n) == IF Len(s) <= n THEN s ELSE SubSeq(s, 1, n)
SliceLast(s, n) == IF Len(s) <= n THEN s ELSE SubSeq(s, Len(s) - n + 1, Len(s))

loadLogs(file) == SliceLast(file, LogCap)

\* the array addLog hands to writeFileSync
addLogNoTruncate(file, entry) == Append(loadLogs(file), entry)
addLog(file, entry) == SliceLast(Append(loadLogs(file), entry), LogCap)

LogEntry(type, user, text, ts) == [type |-> type, user |-> user, text |-> text, ts |-> ts]

MaxLogOps == 4            \* log requests explored after the initial log

\* any caller of addLog appending one entry (stamped with a fresh number)
AppendLog(type) ==
    /\ logOps.done < MaxLogOps
    /\ logsFile' = addLog(logsFile, LogEntry(type, Null, "entry", logOps.n + 1))
    /\ logOps' = [n |-> logOps.n + 1, done |-> logOps.done + 1, last |-> "append", cleared |-> FALSE]
    /\ UNCHANGED << logsView, calVars, pageVars, cfgVars, userVars, runVars, auxVars >>

\* GET /api/logs
GetLogs ==
    /\ logOps.done < MaxLogOps
    /\ logsView' = loadLogs(logsFile)
    /\ logOps' = [logOps EXCEPT !.done = @ + 1, !.last = "read"]
    /\ UNCHANGED << logsFile, calVars, pageVars, cfgVars, userVars, runVars, auxVars >>

\* DELETE /api/logs
DeleteLogs ==
    /\ logOps.done < MaxLogOps
    /\ logsFile' = << >>
    /\ logOps' = [logOps EXCEPT !.done = @ + 1, !.last = "clear", !.cleared = TRUE]
    /\ UNCHANGED << logsView, calVars, pageVars, cfgVars, userVars, runVars, auxVars >>

(***************************************************************************)
(*                server.js: the configuration (config.json)               *)
(***************************************************************************)

ConfigKeys ==
    { "kodeKantor", "status", "shift", "latitude", "longitude", "locationName",
      "timezone", "fonnteAccountToken", "fonnteToken", "fonnteDeviceNumber",
      "fonnteDeviceName", "schedules" }

\* a key DEFAULT_CONFIG does not know, which a request body may still carry
OtherKey == "note"
AllKeys == ConfigKeys \cup {OtherKey}

DEFAULT_CONFIG ==
    [k \in AllKeys |->
        CASE k = "kodeKantor"   -> "004036057000000"
          [] k = "status"       -> "2"
          [] k = "shift"        -> "1"
          [] k = "latitude"     -> "0.537831"
          [] k = "longitude"    -> "123.058388"
          [] k = "locationName" -> "KSOP Gorontalo"
          [] k = "timezone"     -> "Asia/Makassar"
          [] k = "schedules"    -> "Pagi,Siang,Sore"
          [] k = OtherKey       -> Null
          [] OTHER              -> ""]

\* {...a, ...b}: keys of b overwrite, the others are kept
Spread(a, b) == [k \in DOMAIN a |-> IF b[k] # Null THEN b[k] ELSE a[k]]

NoKeys == [k \in AllKeys |-> Null]     \* no config.json, or an empty body

loadConfig(file) == Spread(DEFAULT_CONFIG, file)

\* POST /api/config: the object handed to saveConfigFile
MergeConfigOverDefaults(file, body) == Spread(DEFAULT_CONFIG, body)
MergeConfig(file, body) == Spread(loadConfig(file), body)

MaxConfigOps == 2         \* config requests explored
MaxBodyKeys == 2          \* fields one request body carries at most

\* the value submitted by the n-th request, distinct from every stored one
Versions == << "v1", "v2", "v3", "v4", "v5", "v6" >>

\* the sets of at most n keys
RECURSIVE KeySets(_)
KeySets(n) ==
    IF n = 0 THEN { {} }
    ELSE LET S == KeySets(n - 1) IN S \cup { K \cup {k} : K \in S, k \in AllKeys }

BodyKeySets == KeySets(MaxBodyKeys)

ConfigBodies(n) ==
    { [k \in AllKeys |-> IF k \in K THEN Versions[n] ELSE Null] : K \in BodyKeySets }

PostConfig(body) ==
    /\ configOps < MaxConfigOps
    /\ configFile' = MergeConfig(configFile, body)
    /\ lastConfig' = [before |-> loadConfig(configFile), body |-> body]
    /\ configOps' = configOps + 1
    /\ UNCHANGED << calVars, pageVars, logVars, userVars, runVars, auxVars >>

(***************************************************************************)
(*                  server.js: the roster (users.json)                     *)
(***************************************************************************)

UserFields == {"nip", "password", "phone", "enabled"}

\* loadUsers: [] when users.json is missing or does not parse
loadUsers(file) == IF file.status = "ok" THEN file.list ELSE << >>

\* saveUsers
saveUsers(users) == [status |-> "ok", list |-> users]

\* users.findIndex(u => u.nip === nip), 0 when there is none
FindIndex(users, nip) ==
    IF \E k \in 1..Len(users) : users[k].nip = nip
    THEN Min({k \in 1..Len(users) : users[k].nip = nip})
    ELSE 0

\* POST /api/users: update in place when the nip is known, else push
SaveUserAlwaysPush(users, body) == Append(users, [body EXCEPT !.enabled = "true"])
SaveUser(users, body) ==
    LET index == FindIndex(users, body.nip) IN
    IF index >= 1
    THEN [users EXCEPT ![index] = Spread(users[index], body)]
    ELSE Append(users, [body EXCEPT !.enabled = "true"])

\* DELETE /api/users: loadUsers().filter(u => u.nip !== nip)
RECURSIVE DeleteUser(_, _)
DeleteUser(users, nip) ==
    IF users = << >> THEN << >>
    ELSE IF Head(users).nip # nip THEN << Head(users) >> \o DeleteUser(Tail(users), nip)
    ELSE DeleteUser(Tail(users), nip)

\* POST /api/users/toggle
ToggleUserDisable(users, nip) ==
    LET index == FindIndex(users, nip) IN
    IF index >= 1 THEN [users EXCEPT ![index].enabled = "false"] ELSE users
ToggleUser(users, nip) ==
    LET index == FindIndex(users, nip) IN
    IF index >= 1
    THEN [users EXCEPT ![index].enabled = IF Truthy(@) THEN "false" ELSE "true"]
    ELSE users

\* an add-or-update that waits while the scheduler's roster sync is under way
PostUserLocked(body) ==
    /\ run["cron"].pc # "fetch"
    /\ usersFile' = saveUsers(SaveUser(loadUsers(usersFile), body))
    /\ lastUserOp' = [op |-> "save", nip |-> body.nip, before |-> loadUsers(usersFile)]
    /\ UNCHANGED << calVars, pageVars, logVars, cfgVars, runVars, auxVars >>

PostUser(body) ==
    /\ usersFile' = saveUsers(SaveUser(loadUsers(usersFile), body))
    /\ lastUserOp' = [op |-> "save", nip |-> body.nip, before |-> loadUsers(usersFile)]
    /\ UNCHANGED << calVars, pageVars, logVars, cfgVars, runVars, auxVars >>

DeleteUserReq(nip) ==
    /\ usersFile' = saveUsers(DeleteUser(loadUsers(usersFile), nip))
    /\ lastUserOp' = [op |-> "delete", nip |-> nip, before |-> loadUsers(usersFile)]
    /\ UNCHANGED << calVars, pageVars, logVars, cfgVars, runVars, auxVars >>

\* the file is written only when the nip was found
ToggleUserReq(nip) ==
    /\ usersFile' = IF FindIndex(loadUsers(usersFile), nip) >= 1
                    THEN saveUsers(ToggleUser(loadUsers(usersFile), nip))
                    ELSE usersFile
    /\ lastUserOp' = [op |-> "toggle", nip |-> nip, before |-> loadUsers(usersFile)]
    /\ UNCHANGED << calVars, pageVars, logVars, cfgVars, runVars, auxVars >>

\* DELETE /api/users/all
DeleteAllUsers ==
    /\ usersFile' = saveUsers(<< >>)
    /\ lastUserOp' = [op |-> "deleteAll", nip |-> Null, before |-> loadUsers(usersFile)]
    /\ UNCHANGED << calVars, pageVars, logVars, cfgVars, runVars, auxVars >>

(***************************************************************************)
(*        index.js runCheckin (cron) and server.js runCheckin (dash)       *)
(***************************************************************************)

RunIds == {"cron", "dash"}

NumberPhone == "#812"     \* a phone stored as a JSON number, not a string
IsString(v) == v # NumberPhone

NoOutcome == [success |-> FALSE, message |-> Msg("", ""), checkinTime |-> Null]
NoPending == [kind |-> "none", res |-> NoOutcome]

\* a run before its trigger: no snapshot, nothing attempted, no browser
RunIdle(token) ==
    [ pc        |-> "idle",
      users     |-> << >>,      \* enabledUsers / users: the snapshot looped over
      i         |-> 0,          \* the loop variable
      token     |-> token,      \* config.fonnteToken as the run sees it
      loaded    |-> FALSE,      \* the roster has been read for this run
      roster    |-> << >>,      \* the roster as it was read, before the filter
      inLoop    |-> FALSE,      \* the for loop has been entered
      returned  |-> << >>,      \* per attempt, what performCheckin returned / threw
      skip      |-> "",         \* reason logged when the run ends before the loop
      attempted |-> << >>,      \* nips handed to performCheckin, in call order
      results   |-> << >>,      \* index.js results
      summary   |-> << >>,      \* <<success, failed>> once logged
      notified  |-> << >>,      \* nips handed to sendWhatsAppNotification
      sleeps    |-> << >>,      \* positions (1-based) after which the inter-user delay ran
      wrote     |-> FALSE,      \* getUsers has written users.json
      browsers  |-> 0,          \* browser sessions of this run that are open
      hasPage   |-> FALSE,      \* performCheckin's `page` is set
      pending   |-> NoPending ] \* what performCheckin is about to return / throw

EligibleIgnoringEnabled(u) == Truthy(u.nip) /\ Truthy(u.password)
Eligible(u) == Truthy(u.enabled) /\ Truthy(u.nip) /\ Truthy(u.password)

\* users.filter(u => u.enabled && u.nip && u.password)
RECURSIVE FilterEligible(_)
FilterEligible(users) ==
    IF users = << >> THEN << >>
    ELSE IF Eligible(Head(users)) THEN << Head(users) >> \o FilterEligible(Tail(users))
    ELSE FilterEligible(Tail(users))

\* results.filter(r => r.success).length and results.filter(r => !r.success).length
RECURSIVE CountSuccess(_)
CountSuccess(results) ==
    IF results = << >> THEN 0
    ELSE (IF Head(results).success THEN 1 ELSE 0) + CountSuccess(Tail(results))
Summary(results) == << CountSuccess(results), Len(results) - CountSuccess(results) >>

\* getUsers' mapping of the directory lookup: password = nip, enabled, no phone
FromDirectory(ids) ==
    [k \in 1..Len(ids) |->
        [nip |-> ids[k], password |-> ids[k], phone |-> "", enabled |-> "true"]]

\* the catch block of the loop body, entered in run record q with log file lf:
\* index.js pushes a failed result; server.js calls addLog, which may throw
\* out of runCheckin.  Both then fall through to i++.
CatchAndNotify(r, q, lf) ==
    IF r = "cron"
    THEN [run |-> [q EXCEPT !.pc = "loop", !.i = @ + 1, !.pending = NoPending, !.hasPage = FALSE,
                            !.notified = Append(@, q.users[q.i + 1].nip),
                            !.results = Append(@, [nip |-> q.users[q.i + 1].nip,
                                                   success |-> FALSE, thrown |-> TRUE])],
          log |-> lf]
    ELSE [run |-> [q EXCEPT !.pc = "loop", !.i = @ + 1, !.pending = NoPending, !.hasPage = FALSE,
                            !.notified = Append(@, q.users[q.i + 1].nip)],
          log |-> lf]
Catch(r, q, lf) ==
    IF r = "cron"
    THEN [run |-> [q EXCEPT !.pc = "loop", !.i = @ + 1, !.pending = NoPending, !.hasPage = FALSE,
                            !.results = Append(@, [nip |-> q.users[q.i + 1].nip,
                                                   success |-> FALSE, thrown |-> TRUE])],
          log |-> lf]
    ELSE IF logWritable
    THEN [run |-> [q EXCEPT !.pc = "loop", !.i = @ + 1, !.pending = NoPending, !.hasPage = FALSE],
          log |-> addLog(lf, LogEntry("error", q.users[q.i + 1].nip, "caught", now))]
    ELSE [run |-> [q EXCEPT !.pc = "rejected", !.pending = NoPending, !.hasPage = FALSE],
          log |-> lf]

\* cron.schedule callback -> runCheckin(schedule.name): guards, then getUsers

\* what the directory lookup can answer when users.json does not exist
ApiResults == { [ok |-> FALSE, ids |-> << >>], [ok |-> TRUE, ids |-> << >>],
                [ok |-> TRUE, ids |-> << "1001" >>] }

\* runCheckin once getUsers has returned `users`
AfterGetUsers(q, users) ==
    IF Len(users) = 0
    THEN [q EXCEPT !.pc = "done", !.loaded = TRUE, !.skip = "No users found"]
    ELSE [q EXCEPT !.pc = "loop", !.loaded = TRUE, !.roster = users,
                   !.inLoop = TRUE, !.users = FilterEligible(users)]

\* the guards, then getUsers up to its return or to `await fetchPegawaiFromAPI`
CronTrigger ==
    /\ run["cron"].pc = "idle"
    /\ LET q == run["cron"]
           g == GuardResult(now) IN
       run' = [run EXCEPT !["cron"] =
           IF g = "weekend" THEN [q EXCEPT !.pc = "done", !.skip = "Skipping: Weekend"]
           ELSE IF g = "holiday" THEN [q EXCEPT !.pc = "done", !.skip = "Skipping: Holiday"]
           ELSE IF usersFile.status = "malformed"
           THEN \* JSON.parse throws out of getUsers and runCheckin
                [q EXCEPT !.pc = "rejected", !.loaded = TRUE]
           ELSE IF usersFile.status = "missing"
           THEN \* fs.existsSync is false: the directory lookup is awaited
                [q EXCEPT !.pc = "fetch"]
           ELSE AfterGetUsers(q, usersFile.list)]
    /\ UNCHANGED << calVars, pageVars, logVars, cfgVars, userVars, logWritable, faults, auxVars >>

\* fs.writeFileSync(config.usersFile, ...) after the lookup: the file as it
\* is by now is neither read nor tested again
SyncRoster(file, users) == saveUsers(users)

\* the directory lookup has answered: map, write, return to runCheckin
CronFetched ==
    /\ run["cron"].pc = "fetch"
    /\ \E api \in ApiResults :
          IF api.ok
          THEN LET users == FromDirectory(api.ids) IN
               /\ usersFile' = SyncRoster(usersFile, users)
               /\ run' = [run EXCEPT !["cron"] = AfterGetUsers([@ EXCEPT !.wrote = TRUE], users)]
          ELSE /\ usersFile' = usersFile
               /\ run' = [run EXCEPT !["cron"] = AfterGetUsers(@, << >>)]
    /\ UNCHANGED << calVars, pageVars, logVars, cfgVars, lastUserOp, logWritable, faults, auxVars >>

\* POST /api/trigger, including runCheckin up to its first await
PostTrigger ==
    /\ run["dash"].pc = "idle"
    /\ LET q == run["dash"]
           config == loadConfig(configFile)
           roster == loadUsers(usersFile)
           users == FilterEligible(roster) IN
       IF Len(users) = 0 THEN
            /\ run' = [run EXCEPT !["dash"] =
                   [q EXCEPT !.pc = "refused", !.loaded = TRUE, !.roster = roster,
                             !.skip = "No enabled users found"]]
            /\ UNCHANGED logsFile
       ELSE IF ~logWritable THEN
            \* the first addLog throws: the promise rejects, console.error
            /\ run' = [run EXCEPT !["dash"] =
                   [q EXCEPT !.pc = "rejected", !.loaded = TRUE, !.roster = roster,
                             !.users = users, !.token = config["fonnteToken"]]]
            /\ UNCHANGED logsFile
       ELSE /\ run' = [run EXCEPT !["dash"] =
                   [q EXCEPT !.pc = "loop", !.loaded = TRUE, !.roster = roster,
                             !.inLoop = TRUE, !.users = users, !.token = config["fonnteToken"]]]
            /\ logsFile' = addLog(logsFile, LogEntry("info", Null, "start", now))
    /\ UNCHANGED << calVars, pageVars, logsView, logOps, cfgVars, userVars, logWritable, faults, auxVars >>

\* the array the for loop indexes: the one bound when runCheckin was entered
\* (enabledUsers in index.js, the `users` argument in server.js), whatever
\* users.json holds by now
LoopUsersReloaded(q, file) == FilterEligible(loadUsers(file))
LoopUsers(q, file) == q.users

\* top of the for loop: the next employee, or the end of the run
NextUser(r) ==
    /\ run[r].pc = "loop"
    /\ LET q == run[r] IN
       IF q.i < Len(LoopUsers(q, usersFile)) THEN
            LET user == LoopUsers(q, usersFile)[q.i + 1]
                go == [q EXCEPT !.pc = "launch", !.attempted = Append(@, user.nip)] IN
            IF r = "cron" THEN
                 /\ run' = [run EXCEPT ![r] = go]
                 /\ UNCHANGED logsFile
            ELSE IF logWritable THEN
                 /\ run' = [run EXCEPT ![r] = go]
                 /\ logsFile' = addLog(logsFile, LogEntry("info", user.nip, "begin", now))
            ELSE LET c == Catch(r, q, logsFile) IN
                 /\ run' = [run EXCEPT ![r] = c.run]
                 /\ logsFile' = c.log
       ELSE IF r = "cron" THEN
            /\ run' = [run EXCEPT ![r] = [q EXCEPT !.pc = "done", !.summary = Summary(q.results)]]
            /\ UNCHANGED logsFile
       ELSE IF logWritable THEN
            /\ run' = [run EXCEPT ![r] = [q EXCEPT !.pc = "done"]]
            /\ logsFile' = addLog(logsFile, LogEntry("info", Null, "end", now))
       ELSE /\ run' = [run EXCEPT ![r] = [q EXCEPT !.pc = "rejected"]]
            /\ UNCHANGED logsFile
    /\ UNCHANGED << calVars, pageVars, logsView, logOps, cfgVars, userVars, logWritable, faults, auxVars >>

\* a launch that waits until no other run has a browser session open
LaunchWhenAlone(r) ==
    /\ run[r].pc = "launch"
    /\ \A o \in RunIds \ {r} : run[o].browsers = 0
    /\ \/ /\ run' = [run EXCEPT ![r] = [@ EXCEPT !.pc = "body", !.browsers = @ + 1]]
          /\ UNCHANGED logsFile
       \/ LET c == Catch(r, [run[r] EXCEPT !.returned = Append(@, [kind |-> "error", res |-> NoOutcome])],
                          logsFile) IN
          /\ run' = [run EXCEPT ![r] = c.run]
          /\ logsFile' = c.log
    /\ UNCHANGED << calVars, pageVars, logsView, logOps, cfgVars, userVars, logWritable, faults, auxVars >>

\* performCheckin: puppeteer.launch; a failed launch leaves browser = null,
\* so neither the error screenshot nor browser.close() runs
Launch(r) ==
    /\ run[r].pc = "launch"
    /\ \/ /\ run' = [run EXCEPT ![r] = [@ EXCEPT !.pc = "body", !.browsers = @ + 1]]
          /\ UNCHANGED logsFile
       \/ LET c == Catch(r, [run[r] EXCEPT !.returned = Append(@, [kind |-> "error", res |-> NoOutcome])],
                          logsFile) IN
          /\ run' = [run EXCEPT ![r] = c.run]
          /\ logsFile' = c.log
    /\ UNCHANGED << calVars, pageVars, logsView, logOps, cfgVars, userVars, logWritable, faults, auxVars >>

\* pages the portal answers with in a run: one per outcome the loop tells apart
RunPages ==
    { [content |-> <<"D","a","t","a"," ","A","b","s","e","n","s","i">>,
       url |-> <<"/","h","o","m","e">>, title |-> "Home", time |-> "07:15:02"],
      [content |-> <<"N","I","P"," ","s","a","l","a","h">>,
       url |-> <<"/">>, title |-> "Login", time |-> Null] }

\* performCheckin from browser.newPage() to `return result` or the catch block
Body(r) ==
    /\ run[r].pc = "body"
    /\ \/ \* browser.newPage() rejects: page is still null, no screenshot
          /\ run' = [run EXCEPT ![r] = [@ EXCEPT !.pc = "close",
                                         !.pending = [kind |-> "error", res |-> NoOutcome]]]
          /\ UNCHANGED shots
       \/ \* navigation fails after the retries: catch block, 'error' screenshot
          /\ run' = [run EXCEPT ![r] = [@ EXCEPT !.pc = "close", !.hasPage = TRUE,
                                         !.pending = [kind |-> "error", res |-> NoOutcome]]]
          /\ shots' = Append(shots, "error")
       \/ \* the login form never appears
          /\ run' = [run EXCEPT ![r] = [@ EXCEPT !.pc = "close", !.hasPage = TRUE,
                                         !.pending = [kind |-> "error", res |-> NoOutcome]]]
          /\ shots' = shots \o << "page_loaded", "after_geolocation", "form_not_found", "error" >>
       \/ \E pg \in RunPages :
          /\ run' = [run EXCEPT ![r] = [@ EXCEPT !.pc = "close", !.hasPage = TRUE,
                        !.pending = [kind |-> "result",
                                     res |-> Classify(pg.content, pg.url, pg.title, pg.time)]]]
          /\ shots' = shots \o << "page_loaded", "after_geolocation" >>
                        \o (IF IsUnrecognized(pg.content, pg.url) THEN << "unknown_result" >> ELSE << >>)
    /\ UNCHANGED << calVars, page, outcome, logVars, cfgVars, userVars, logWritable, faults, auxVars >>

\* the finally block: whether this step closes the browser
LeaveOpen(n) == n
CloseBrowser(n) == IF n > 0 THEN n - 1 ELSE n

\* after `await sendWhatsAppNotification` or when no notification is due:
\* the inter-user delay unless this was the last employee, then i++
AfterNotify(q) ==
    IF q.i < Len(q.users) - 1 THEN [q EXCEPT !.pc = "delay"]
    ELSE [q EXCEPT !.pc = "loop", !.i = @ + 1]

\* if (config.fonnteToken && user.phone) await sendWhatsAppNotification(...);
\* user.phone.replace throws when the phone is not a string
NotifyStep(r, q, lf) ==
    LET user == q.users[q.i + 1] IN
    IF Truthy(q.token) /\ Truthy(user.phone)
    THEN LET inv == [q EXCEPT !.notified = Append(@, user.nip)] IN
         IF IsString(user.phone) THEN [run |-> [inv EXCEPT !.pc = "notify"], log |-> lf]
         ELSE Catch(r, inv, lf)
    ELSE [run |-> AfterNotify(q), log |-> lf]

\* type: result.success ? 'success' : 'error'
OutcomeTypeAlwaysSuccess(res) == "success"
OutcomeType(res) == IF res.success THEN "success" ELSE "error"

\* browser.close() in finally, then the caller's code after `await performCheckin`
Close(r) ==
    /\ run[r].pc = "close"
    /\ LET p == run[r].pending
           q == [run[r] EXCEPT !.browsers = CloseBrowser(@), !.hasPage = FALSE,
                               !.pending = NoPending, !.returned = Append(@, p)]
           user == q.users[q.i + 1]
           c == IF p.kind = "error" THEN Catch(r, q, logsFile)
                ELSE IF r = "cron"
                THEN NotifyStep(r, [q EXCEPT !.results = Append(@, [nip |-> user.nip,
                                        success |-> p.res.success, thrown |-> FALSE])], logsFile)
                ELSE IF logWritable
                THEN NotifyStep(r, q, addLog(logsFile,
                        LogEntry(OutcomeType(p.res), user.nip, "outcome", now)))
                ELSE Catch(r, q, logsFile)
       IN /\ run' = [run EXCEPT ![r] = c.run]
          /\ logsFile' = c.log
    /\ UNCHANGED << calVars, pageVars, logsView, logOps, cfgVars, userVars, logWritable, faults, auxVars >>

\* sendWhatsAppNotification returns: sent, refused or failed, all swallowed
NotifyDone(r) ==
    /\ run[r].pc = "notify"
    /\ run' = [run EXCEPT ![r] = AfterNotify(@)]
    /\ UNCHANGED << calVars, pageVars, logVars, cfgVars, userVars, logWritable, faults, auxVars >>

\* await new Promise(r => setTimeout(r, 3000 + Math.random() * 5000)) is over
DelayDone(r) ==
    /\ run[r].pc = "delay"
    /\ run' = [run EXCEPT ![r] = [@ EXCEPT !.pc = "loop", !.i = @ + 1,
                                           !.sleeps = Append(@, run[r].i + 1)]]
    /\ UNCHANGED << calVars, pageVars, logVars, cfgVars, userVars, logWritable, faults, auxVars >>

\* the environment: writes to logs.json start or stop failing
MaxFaults == 1
LogFault ==
    /\ faults < MaxFaults
    /\ faults' = faults + 1
    /\ logWritable' = ~logWritable
    /\ UNCHANGED << calVars, pageVars, logVars, cfgVars, userVars, run, auxVars >>


(***************************************************************************)
(*           checkin.js performCheckin, followed step by step              *)
(***************************************************************************)

NavRetries == 3           \* let retries = 3
NavPause == 5000          \* setTimeout(r, 5000), in milliseconds

Ev(op, arg, ms) == [op |-> op, arg |-> arg, ms |-> ms]

NoError == [kind |-> "none", detail |-> Null]
NoTable == [exists |-> FALSE, rows |-> << >>]

\* input[name="location_user"]: absent, or present with a value
NoField == [exists |-> FALSE, value |-> << >>]
\* wait: how waitForFunction ended; before / after: the field around the
\* page.evaluate that sets the location manually
NoLocation == [wait |-> "none", before |-> NoField, after |-> NoField]

\* performCheckin before it is called: browser = null, page = null
NoAttempt ==
    [ pc       |-> "idle",
      browser  |-> FALSE,       \* `browser` is set (puppeteer.launch resolved)
      hasPage  |-> FALSE,       \* `page` is set (browser.newPage resolved)
      open     |-> 0,           \* browser sessions launched and not yet closed
      retries  |-> 0,           \* the loop variable `retries`
      events   |-> << >>,       \* launches, navigations, pauses, screenshots, close
      error    |-> NoError,     \* the exception on its way to the caller
      result   |-> NoOutcome,   \* `result`
      hour     |-> 0,           \* `hour`, as parsed for the column choice
      column   |-> 0,           \* sessionColumn, 0 before it is chosen
      evalOk   |-> FALSE,       \* page.evaluate of the extraction resolved
      table    |-> NoTable,     \* the Data Absensi table of the page after submit
      loc      |-> NoLocation,  \* the location field around the manual injection
      ended    |-> "no" ]       \* "returned" or "thrown" once the call is over

\* the calls of the try block that neither retry nor swallow their error
SetupErrors == {"setViewport failed", "overridePermissions failed"}
NavErrors == {"net::ERR_NAME_NOT_RESOLVED", "Navigation timeout of 60000 ms exceeded"}
TypingErrors == {"No element found for selector: select[name=status_wfh]"}
FillErrors == {"No element found for selector: #btnSubmit"}
ReadErrors == {"Execution context was destroyed"}
FormUrls == {"https://skemaraja/", "https://skemaraja/maintenance"}

Digits == {"0", "1", "2", "3", "4", "5", "6", "7", "8", "9"}

\* /\d{h}:\d{2}:\d{2}/ matches s at position k
TimeAt(s, k, h) ==
    /\ k + h + 5 <= Len(s)
    /\ \A j \in 0..(h - 1) : s[k + j] \in Digits
    /\ s[k + h] = ":"
    /\ s[k + h + 1] \in Digits /\ s[k + h + 2] \in Digits
    /\ s[k + h + 3] = ":"
    /\ s[k + h + 4] \in Digits /\ s[k + h + 5] \in Digits

RECURSIVE Join(_)
Join(chars) == IF chars = << >> THEN "" ELSE Head(chars) \o Join(Tail(chars))

\* cellText.match(/(\d{1,2}:\d{2}:\d{2})/): leftmost match, greedy hour; null
\* when there is none
TimeMatch(s) ==
    LET K == { k \in 1..Len(s) : TimeAt(s, k, 2) \/ TimeAt(s, k, 1) } IN
    IF K = {} THEN Null
    ELSE LET k == Min(K) IN
         IF TimeAt(s, k, 2) THEN Join(SubSeq(s, k, k + 7)) ELSE Join(SubSeq(s, k, k + 6))

\* the function handed to page.evaluate: the cell of the first data row
ExtractTime(table, colIndex) ==
    IF ~table.exists THEN Null
    ELSE IF Len(table.rows) = 0 THEN Null
    ELSE IF Len(table.rows[1]) <= colIndex THEN Null
    ELSE TimeMatch(table.rows[1][colIndex + 1])

\* parseInt(new Date().toLocaleString('en-US', {hour: 'numeric', hour12: false})):
\* the hour of the WITA wall clock; at midnight the runtime's ICU data decides
\* between the h23 rendering "0" and the h24 rendering "24"
ParsedHours(t) == IF WitaHour(t) = 0 THEN {0, 24} ELSE {WitaHour(t)}

\* let sessionColumn = 1; if (hour >= 12 && hour < 16) 2; else if (hour >= 16) 3
SessionColumn(hour) ==
    IF hour >= 12 /\ hour < 16 THEN 2
    ELSE IF hour >= 16 THEN 3
    ELSE 1

TwoDigit ==
    << "00", "01", "02", "03", "04", "05", "06", "07", "08", "09", "10", "11",
       "12", "13", "14", "15", "16", "17", "18", "19", "20", "21", "22", "23" >>

\* the fallback of the extraction's catch: toLocaleString('id-ID', 2-digit
\* hour, minute, second) with '.' replaced by ':'; instants are whole hours
LocalTimeString(t) == TwoDigit[WitaHour(t) + 1] \o ":00:00"

\* puppeteer.launch
AttLaunch ==
    /\ att.pc = "launch"
    /\ \/ att' = [att EXCEPT !.pc = "newPage", !.browser = TRUE, !.open = @ + 1,
                             !.events = Append(@, Ev("launch", "", 0))]
       \/ att' = [att EXCEPT !.pc = "catch",
                             !.error = [kind |-> "launch", detail |-> "Failed to launch"]]
    /\ UNCHANGED << calVars, pageVars, logVars, cfgVars, userVars, runVars, ntf, sched >>

\* browser.newPage, then viewport, permissions, geolocation, user agent, headers
AttNewPage ==
    /\ att.pc = "newPage"
    /\ \/ att' = [att EXCEPT !.pc = "goto", !.hasPage = TRUE, !.retries = NavRetries]
       \/ att' = [att EXCEPT !.pc = "catch",
                             !.error = [kind |-> "newPage", detail |-> "Target closed"]]
       \/ \E e \in SetupErrors :
             att' = [att EXCEPT !.pc = "catch", !.hasPage = TRUE,
                                !.error = [kind |-> "setup", detail |-> e]]
    /\ UNCHANGED << calVars, pageVars, logVars, cfgVars, userVars, runVars, ntf, sched >>

\* what the catch of one page.goto does with `retries` already decremented
AfterNavErrorNoRethrow(a, e) ==
    [a EXCEPT !.pc = "pause"]
AfterNavError(a, e) ==
    IF a.retries = 0
    THEN [a EXCEPT !.pc = "catch", !.error = [kind |-> "nav", detail |-> e]]
    ELSE [a EXCEPT !.pc = "pause"]

\* one turn of while (retries > 0): page.goto resolves (break) or rejects
AttGotoPauseOnSuccess ==
    /\ att.pc = "goto"
    /\ att.retries > 0
    /\ \/ att' = [att EXCEPT !.pc = "pause", !.retries = 0,
                             !.events = Append(@, Ev("goto", "ok", 0))]
       \/ \E e \in NavErrors :
             att' = AfterNavError([att EXCEPT !.retries = @ - 1,
                                              !.events = Append(@, Ev("goto", e, 0))], e)
    /\ UNCHANGED << calVars, pageVars, logVars, cfgVars, userVars, runVars, ntf, sched >>
AttGoto ==
    /\ att.pc = "goto"
    /\ att.retries > 0
    /\ \/ att' = [att EXCEPT !.pc = "form", !.events = Append(@, Ev("goto", "ok", 0))]
       \/ \E e \in NavErrors :
             att' = AfterNavError([att EXCEPT !.retries = @ - 1,
                                              !.events = Append(@, Ev("goto", e, 0))], e)
    /\ UNCHANGED << calVars, pageVars, logVars, cfgVars, userVars, runVars, ntf, sched >>

\* await new Promise(r => setTimeout(r, 5000)), back to the loop test
AttPause ==
    /\ att.pc = "pause"
    /\ att' = [att EXCEPT !.pc = IF att.retries > 0 THEN "goto" ELSE "form",
                          !.events = Append(@, Ev("sleep", "", NavPause))]
    /\ UNCHANGED << calVars, pageVars, logVars, cfgVars, userVars, runVars, ntf, sched >>

\* screenshots of the loaded page, the tolerated geolocation trigger, then
\* waitForSelector('input[name="nip"]'): on a timeout the diagnostic
\* screenshot and the 'form not found' error with the current URL
AttForm ==
    /\ att.pc = "form"
    /\ LET seen == [att EXCEPT !.events = @ \o << Ev("shot", "page_loaded", 0),
                                                  Ev("shot", "after_geolocation", 0) >>] IN
       \/ att' = [seen EXCEPT !.pc = "fill"]
       \/ \E u \in FormUrls :
             att' = [seen EXCEPT !.pc = "catch",
                                 !.events = Append(@, Ev("shot", "form_not_found", 0)),
                                 !.error = [kind |-> "form", detail |-> u]]
    /\ UNCHANGED << calVars, pageVars, logVars, cfgVars, userVars, runVars, ntf, sched >>

\* latitude and longitude as the template literal renders them
Latitude == << "0", ".", "5", "3", "7", "8", "3", "1" >>
Longitude == << "1", "2", "3", ".", "0", "5", "8", "3", "8", "8" >>
Comma == << "," >>

\* the field as the page may have left it: absent, empty, a text without a
\* comma, or the pair the page's own geolocation callback captured
CapturedPair == << "0", ".", "5", "4", ",", "1", "2", "3", ".", "0", "6" >>
LocationFields ==
    { NoField,
      [exists |-> TRUE, value |-> << >>],
      [exists |-> TRUE, value |-> << "N", "a", "N" >>],
      [exists |-> TRUE, value |-> CapturedPair] }

\* locationInput && locationInput.value && locationInput.value.includes(',')
Captured(field) ==
    field.exists /\ field.value # << >> /\ StrIncludes(field.value, Comma)

\* page.evaluate((lat, lng) => ...): set the location manually if not captured
SetLocationAlways(field, lat, lng) ==
    [field EXCEPT !.value = lat \o << ",", " " >> \o lng]
SetLocation(field, lat, lng) ==
    IF field.exists /\ (field.value = << >> \/ ~StrIncludes(field.value, Comma))
    THEN [field EXCEPT !.value = lat \o << ",", " " >> \o lng]
    ELSE field

\* typing into the form, select, shift, then the bounded wait for the
\* location field (a rejection is only logged) and the manual injection;
\* the wait resolves only on a captured field, and a field captured after
\* the timeout is still seen by the injection
AttLocation ==
    /\ att.pc = "fill"
    /\ \/ \E field \in LocationFields, wait \in {"resolved", "timeout"} :
             /\ wait = "resolved" => Captured(field)
             /\ att' = [att EXCEPT !.pc = "submit",
                                   !.loc = [wait |-> wait, before |-> field,
                                            after |-> SetLocation(field, Latitude, Longitude)]]
       \/ \E e \in TypingErrors :
             att' = [att EXCEPT !.pc = "catch", !.error = [kind |-> "fill", detail |-> e]]
    /\ UNCHANGED << calVars, pageVars, logVars, cfgVars, userVars, runVars, ntf, sched >>

\* click on #btnSubmit, the tolerated waitForNavigation, then
\* page.content() / page.title() / page.url()
AttSubmit ==
    /\ att.pc = "submit"
    /\ \/ att' = [att EXCEPT !.pc = "extract", !.events = Append(@, Ev("submit", "", 0))]
       \/ \E e \in FillErrors :
             att' = [att EXCEPT !.pc = "catch", !.error = [kind |-> "fill", detail |-> e]]
       \/ \E e \in ReadErrors :
             att' = [att EXCEPT !.pc = "catch", !.events = Append(@, Ev("submit", "", 0)),
                                !.error = [kind |-> "read", detail |-> e]]
    /\ UNCHANGED << calVars, pageVars, logVars, cfgVars, userVars, runVars, ntf, sched >>

\* the time extraction (its own try / catch), the classification of `page`
\* and `return result`
AttClassify ==
    /\ att.pc = "extract"
    /\ \E hour \in ParsedHours(now), evalOk \in BOOLEAN :
          LET col == SessionColumn(hour)
              checkinTime == IF evalOk THEN ExtractTime(att.table, col)
                             ELSE LocalTimeString(now) IN
          att' = [att EXCEPT !.pc = "finally", !.hour = hour, !.column = col,
                             !.evalOk = evalOk,
                             !.result = Classify(page.content, page.url, page.title, checkinTime),
                             !.events = IF IsUnrecognized(page.content, page.url)
                                        THEN Append(@, Ev("shot", "unknown_result", 0)) ELSE @]
    /\ UNCHANGED << calVars, pageVars, logVars, cfgVars, userVars, runVars, ntf, sched >>

\* catch (error): if (page) await saveScreenshot(page, 'error')
ErrorShotNever(hasPage) == << >>
ErrorShot(hasPage) == IF hasPage THEN << Ev("shot", "error", 0) >> ELSE << >>

\* the outer catch block: screenshot, then `throw error`
AttCatch ==
    /\ att.pc = "catch"
    /\ att' = [att EXCEPT !.pc = "finally", !.events = @ \o ErrorShot(att.hasPage)]
    /\ UNCHANGED << calVars, pageVars, logVars, cfgVars, userVars, runVars, ntf, sched >>

\* how the call ends: `return result`, or `throw error` from the catch block
EndingSwallowed(error) == "returned"
Ending(error) == IF error = NoError THEN "returned" ELSE "thrown"

\* finally: if (browser) await browser.close(); then the call is over
AttFinally ==
    /\ att.pc = "finally"
    /\ att' = [att EXCEPT !.pc = "over",
                          !.open = IF att.browser THEN CloseBrowser(@) ELSE @,
                          !.events = IF att.browser THEN Append(@, Ev("close", "", 0)) ELSE @,
                          !.ended = Ending(att.error)]
    /\ UNCHANGED << calVars, pageVars, logVars, cfgVars, userVars, runVars, ntf, sched >>

(***************************************************************************)
(*                 checkin.js sendWhatsAppNotification                     *)
(***************************************************************************)

\* a JSON value stored as user.phone: absent, a string or a number
PhoneValue(type, chars) == [type |-> type, chars |-> chars]

\* JavaScript truthiness of such a value
PhoneTruthy(p) ==
    CASE p.type = "undefined" -> FALSE
      [] p.type = "string"    -> p.chars # << >>
      [] p.type = "number"    -> p.chars # << "0" >>

\* user.phone.replace(/\D/g, ''): only a string has .replace
RECURSIVE DigitsOnly(_)
DigitsOnly(chars) ==
    IF chars = << >> THEN << >>
    ELSE (IF Head(chars) \in Digits THEN << Head(chars) >> ELSE << >>) \o DigitsOnly(Tail(chars))

\* sendWhatsAppNotification before it is called
NoNotify ==
    [ pc       |-> "idle",
      phone    |-> PhoneValue("undefined", << >>),   \* user.phone
      token    |-> Null,        \* fonnteToken
      success  |-> FALSE,       \* success
      target   |-> << >>,       \* the 'target' field of the request
      requests |-> 0,           \* POSTs sent to the gateway by this call
      logged   |-> << >>,       \* logger levels used by this call
      ended    |-> "no" ]       \* "returned" or "thrown" once the call is over

\* what the gateway exchange can end in
GatewayReplies == {"sent", "refused", "network error", "not json"}

\* the guard and the phone normalisation, both before the try block
NtfCall ==
    /\ ntf.pc = "call"
    /\ ntf' = IF ~PhoneTruthy(ntf.phone) \/ ~Truthy(ntf.token)
              THEN [ntf EXCEPT !.pc = "over", !.ended = "returned"]
              ELSE IF ntf.phone.type # "string"
              THEN [ntf EXCEPT !.pc = "over", !.ended = "thrown"]
              ELSE [ntf EXCEPT !.pc = "fetch", !.target = DigitsOnly(ntf.phone.chars)]
    /\ UNCHANGED << calVars, pageVars, logVars, cfgVars, userVars, runVars, att, sched >>

\* the logger call that follows the exchange: info when result.status is
\* truthy, warn when it is not, error from the catch block
ReplyLevelSilent(reply) == << >>
ReplyLevel(reply) ==
    CASE reply = "sent"    -> << "info" >>
      [] reply = "refused" -> << "warn" >>
      [] OTHER             -> << "error" >>

\* the try block: one fetch, response.json(), the log line
NtfFetch ==
    /\ ntf.pc = "fetch"
    /\ \E reply \in GatewayReplies :
          ntf' = [ntf EXCEPT !.pc = "over", !.requests = @ + 1,
                             !.logged = @ \o ReplyLevel(reply), !.ended = "returned"]
    /\ UNCHANGED << calVars, pageVars, logVars, cfgVars, userVars, runVars, att, sched >>

(***************************************************************************)
(*     server.js getScheduleName beside the executor's column choice       *)
(***************************************************************************)

\* the label and the column before either is computed, at `minute` past the
\* hour of `now`
NoSchedule == [minute |-> 0, name |-> Null, column |-> 0]

\* getScheduleName, from getWitaTime().getHours() and .getMinutes()
getScheduleName(hour, minute) ==
    LET totalMinutes == hour * 60 + minute IN
    IF totalMinutes >= 420 /\ totalMinutes < 480 THEN "Pagi"
    ELSE IF totalMinutes >= 720 /\ totalMinutes < 780 THEN "Siang"
    ELSE IF totalMinutes >= 1020 /\ totalMinutes < 1080 THEN "Sore"
    ELSE IF hour < 12 THEN "Pagi"
    ELSE IF hour < 16 THEN "Siang"
    ELSE "Sore"

\* const schedule = getScheduleName()
ResolveSchedule ==
    /\ sched.name = Null
    /\ sched' = [sched EXCEPT !.name = getScheduleName(WitaHour(now), sched.minute)]
    /\ UNCHANGED << calVars, pageVars, logVars, cfgVars, userVars, runVars, att, ntf >>

\* the executor's witaHour / parseInt / sessionColumn at the same clock time
ChooseColumn ==
    /\ sched.column = 0
    /\ \E hour \in ParsedHours(now) :
          sched' = [sched EXCEPT !.column = SessionColumn(hour)]
    /\ UNCHANGED << calVars, pageVars, logVars, cfgVars, userVars, runVars, att, ntf >>

(***************************************************************************)
(*      the working-day guard and the classifier applied to one input      *)
(***************************************************************************)

\* if (isWeekend()) ... if (await isHoliday()) ... evaluated at instant `now`
CheckWorkingDay ==
    /\ calResult = "unknown"
    /\ calResult' = GuardResult(now)
    /\ UNCHANGED << now, pageVars, logVars, cfgVars, userVars, runVars, auxVars >>

NoPage == [content |-> << >>, url |-> << >>, title |-> "", time |-> Null]

\* the result block of performCheckin applied to `page`
ClassifyPage ==
    /\ outcome = NoOutcome
    /\ outcome' = Classify(page.content, page.url, page.title, page.time)
    /\ shots' = IF IsUnrecognized(page.content, page.url)
                THEN Append(shots, "unknown_result") ELSE shots
    /\ UNCHANGED << page, calVars, logVars, cfgVars, userVars, runVars, auxVars >>

(***************************************************************************)
(*                            specifications                               *)
(***************************************************************************)

\* 2025-01-02 08:00 WITA (Thursday); 2025-01-03 20:00Z = Saturday 04:00 WITA;
\* 2025-01-05 08:00 WITA (Sunday); 2025-01-29 08:00 WITA (Wednesday, holiday)
SampleInstants == {24, 68, 96, 672}

CalIdle == now = 24 /\ calResult = "unknown"
PageIdle == page = NoPage /\ outcome = NoOutcome /\ shots = << >>
LogIdle ==
    /\ logsFile = << >>
    /\ logsView = << >>
    /\ logOps = [n |-> 0, done |-> 0, last |-> "none", cleared |-> FALSE]
CfgIdle ==
    /\ configFile = NoKeys
    /\ configOps = 0
    /\ lastConfig = [before |-> DEFAULT_CONFIG, body |-> NoKeys]
UserIdle ==
    /\ usersFile = [status |-> "missing", list |-> << >>]
    /\ lastUserOp = [op |-> "none", nip |-> Null, before |-> << >>]
RunsIdle ==
    /\ logWritable = TRUE
    /\ faults = 0
    /\ run = [r \in RunIds |-> RunIdle("")]
AuxIdle == att = NoAttempt /\ ntf = NoNotify /\ sched = NoSchedule

\* ---- the run loops ----

MaxUsers == 2             \* longest roster explored

SampleUsers ==
    { [nip |-> "1001", password |-> "pw", phone |-> "0812",      enabled |-> "true"],
      [nip |-> "1002", password |-> "pw", phone |-> NumberPhone, enabled |-> "true"],
      [nip |-> "1002", password |-> "pw", phone |-> "",          enabled |-> "true"],
      [nip |-> "1002", password |-> "",   phone |-> "",          enabled |-> "true"],
      [nip |-> "1003", password |-> "pw", phone |-> "",          enabled |-> "false"],
      [nip |-> "",     password |-> "pw", phone |-> "",          enabled |-> "true"] }

DistinctNips(users) ==
    \A a, b \in 1..Len(users) : a # b => users[a].nip # users[b].nip

SampleRosters ==
    { users \in UNION { [1..k -> SampleUsers] : k \in 0..MaxUsers } : DistinctNips(users) }

SampleUsersFiles ==
    { saveUsers(users) : users \in SampleRosters }
        \cup { [status |-> "missing", list |-> << >>], [status |-> "malformed", list |-> << >>] }

TokenValues == {"", "tok"}

Init ==
    /\ now \in SampleInstants
    /\ calResult = "unknown"
    /\ PageIdle
    /\ LogIdle
    /\ usersFile \in SampleUsersFiles
    /\ lastUserOp = [op |-> "none", nip |-> Null, before |-> << >>]
    /\ \E tok \in TokenValues :
          /\ configFile = [NoKeys EXCEPT !["fonnteToken"] = IF tok = "" THEN Null ELSE tok]
          /\ run = [r \in RunIds |-> RunIdle(tok)]
    /\ configOps = 0
    /\ lastConfig = [before |-> DEFAULT_CONFIG, body |-> NoKeys]
    /\ logWritable = TRUE
    /\ faults = 0
    /\ AuxIdle

Next ==
    \/ CronTrigger
    \/ CronFetched
    \/ PostTrigger
    \/ \E r \in RunIds : NextUser(r)
    \/ \E r \in RunIds : Launch(r)
    \/ \E r \in RunIds : Body(r)
    \/ \E r \in RunIds : Close(r)
    \/ \E r \in RunIds : NotifyDone(r)
    \/ \E r \in RunIds : DelayDone(r)
    \/ LogFault

Spec == Init /\ [][Next]_vars

\* ---- the working-day decision over two years of instants ----

MaxInstant == 17520       \* 730 days of 24 hours from 2025-01-01T00:00Z

InitCalendar ==
    /\ now \in 0..MaxInstant
    /\ calResult = "unknown"
    /\ PageIdle /\ LogIdle /\ CfgIdle /\ UserIdle /\ RunsIdle /\ AuxIdle

NextCalendar == CheckWorkingDay

SpecCalendar == InitCalendar /\ [][NextCalendar]_vars

\* ---- the classifier over pages assembled from the keywords ----

MaxFragments == 2         \* keyword fragments one page content is made of

Fragments ==
    SuccessMarkers \cup AlreadyMarkers \cup InvalidMarkers \cup TooEarlyMarkers
        \cup { LokasiMarker, TidakMarker, <<"x">> }

RECURSIVE Flatten(_)
Flatten(fs) == IF fs = << >> THEN << >> ELSE Head(fs) \o Flatten(Tail(fs))

SampleContents ==
    { Flatten(fs) : fs \in UNION { [1..k -> Fragments] : k \in 0..MaxFragments } }

SampleUrls == { <<"/">>, <<"/","h","o","m","e">>, <<"/","d","a","s","h","b","o","a","r","d">> }

InitClassify ==
    /\ page \in [content : SampleContents, url : SampleUrls, title : {"Login"},
                 time : {Null, "07:15:02"}]
    /\ outcome = NoOutcome
    /\ shots = << >>
    /\ CalIdle /\ LogIdle /\ CfgIdle /\ UserIdle /\ RunsIdle /\ AuxIdle

NextClassify == ClassifyPage

SpecClassify == InitClassify /\ [][NextClassify]_vars

\* ---- the rolling log ----

Prefill(k) == [j \in 1..k |-> LogEntry("info", Null, "entry", j)]

InitLog ==
    /\ \E k \in {0} \cup ((LogCap - 2)..LogCap) :
          /\ logsFile = Prefill(k)
          /\ logOps = [n |-> k, done |-> 0, last |-> "none", cleared |-> FALSE]
    /\ logsView = << >>
    /\ CalIdle /\ PageIdle /\ CfgIdle /\ UserIdle /\ RunsIdle /\ AuxIdle

NextLog ==
    \/ \E type \in {"info", "success", "error"} : AppendLog(type)
    \/ GetLogs
    \/ DeleteLogs

SpecLog == InitLog /\ [][NextLog]_vars

\* ---- the configuration ----

InitConfig == CfgIdle /\ CalIdle /\ PageIdle /\ LogIdle /\ UserIdle /\ RunsIdle /\ AuxIdle

NextConfig == \E body \in ConfigBodies(configOps + 1) : PostConfig(body)

SpecConfig == InitConfig /\ [][NextConfig]_vars

\* ---- the roster ----

BodyNips == {"", "1001", "1002"}

UserBodies ==
    [nip : BodyNips, password : {Null, "pw"}, phone : {Null}, enabled : {Null, "false"}]

InitUsers == UserIdle /\ CalIdle /\ PageIdle /\ LogIdle /\ CfgIdle /\ RunsIdle /\ AuxIdle

NextUsers ==
    \/ \E body \in UserBodies : PostUser(body)
    \/ \E nip \in BodyNips : DeleteUserReq(nip)
    \/ \E nip \in BodyNips : ToggleUserReq(nip)
    \/ DeleteAllUsers

SpecUsers == InitUsers /\ [][NextUsers]_vars

\* ---- one attempt ----

\* 16:00Z = 00:00 WITA, 03:00Z = 11:00, 04:00Z = 12:00, 07:00Z = 15:00,
\* 08:00Z = 16:00, 15:00Z = 23:00, all on working days of January 2025
AttemptInstants == {40, 27, 28, 31, 32, 39}

DateCell == << "0", "7", "-", "J", "a", "n" >>
DashCell == << "-" >>
\* the session cells of a row that has all its check-ins
TimeCells ==
    << << "7", ":", "1", "5", ":", "0", "2" >>,
       << "0", "7", "-", "J", "a", "n", " ", "1", "2", ":", "0", "5", ":", "3", "3" >>,
       << "1", "7", ":", "0", "1", ":", "0", "9", " ", "W", "I", "T", "A" >> >>
\* yesterday's row, below the first one
OlderRow ==
    << << "0", "6", "-", "J", "a", "n" >>, << "7", ":", "5", "9", ":", "5", "9" >>,
       << "1", "2", ":", "5", "9", ":", "5", "9" >>, << "1", "7", ":", "5", "9", ":", "5", "9" >> >>

MaxCells == 4             \* cells in the first data row, the date cell included

\* first rows of 0..MaxCells cells: the date, then per session a time or a dash
SampleRows ==
    UNION { { [c \in 1..n |-> IF c = 1 THEN DateCell
                              ELSE IF c - 1 > Len(TimeCells) THEN DashCell
                              ELSE IF (c - 1) \in filled THEN TimeCells[c - 1] ELSE DashCell]
              : filled \in SUBSET (1..(n - 1)) }
            : n \in 0..MaxCells }

SampleTables ==
    { NoTable, [exists |-> TRUE, rows |-> << >>] }
        \cup { [exists |-> TRUE, rows |-> << row, OlderRow >>] : row \in SampleRows }

AttemptPages ==
    { [content |-> <<"D","a","t","a"," ","A","b","s","e","n","s","i">>,
       url |-> <<"/","h","o","m","e">>, title |-> "Home", time |-> Null],
      [content |-> <<"s","u","d","a","h"," ","a","b","s","e","n">>,
       url |-> <<"/">>, title |-> "Login", time |-> Null],
      [content |-> <<"N","I","P"," ","s","a","l","a","h">>,
       url |-> <<"/">>, title |-> "Login", time |-> Null],
      [content |-> <<"b","e","l","u","m"," ","w","a","k","t","u","n","y","a">>,
       url |-> <<"/">>, title |-> "Login", time |-> Null],
      [content |-> <<"l","o","k","a","s","i"," ","t","i","d","a","k">>,
       url |-> <<"/">>, title |-> "Login", time |-> Null],
      [content |-> <<"5","0","2">>,
       url |-> <<"/">>, title |-> "Bad Gateway", time |-> Null] }

InitAttempt ==
    /\ now \in AttemptInstants
    /\ calResult = "unknown"
    /\ page \in AttemptPages
    /\ outcome = NoOutcome
    /\ shots = << >>
    /\ \E table \in SampleTables : att = [NoAttempt EXCEPT !.pc = "launch", !.table = table]
    /\ ntf = NoNotify
    /\ sched = NoSchedule
    /\ LogIdle /\ CfgIdle /\ UserIdle /\ RunsIdle

NextAttempt ==
    \/ AttLaunch
    \/ AttNewPage
    \/ AttGoto
    \/ AttPause
    \/ AttForm
    \/ AttLocation
    \/ AttSubmit
    \/ AttClassify
    \/ AttCatch
    \/ AttFinally

SpecAttempt == InitAttempt /\ [][NextAttempt]_vars

\* ---- one notification ----

SamplePhones ==
    { PhoneValue("undefined", << >>),
      PhoneValue("string", << >>),
      PhoneValue("string", << "0", "8", "1", "2", "-", "3", "4" >>),
      PhoneValue("string", << "+", "6", "2", " ", "8" >>),
      PhoneValue("number", << "8", "1", "2" >>),
      PhoneValue("number", << "0" >>) }

SampleTokens == {Null, "", "tok", "tok2"}

InitNotify ==
    /\ \E phone \in SamplePhones, token \in SampleTokens, success \in BOOLEAN :
          ntf = [NoNotify EXCEPT !.pc = "call", !.phone = phone, !.token = token,
                                 !.success = success]
    /\ att = NoAttempt
    /\ sched = NoSchedule
    /\ CalIdle /\ PageIdle /\ LogIdle /\ CfgIdle /\ UserIdle /\ RunsIdle

NextNotify == NtfCall \/ NtfFetch

SpecNotify == InitNotify /\ [][NextNotify]_vars

\* ---- the scheduler's run beside the dashboard's roster requests ----

RaceNips == {"1001", "1002"}

RaceBodies == [nip : RaceNips, password : {"pw"}, phone : {Null}, enabled : {Null}]

RaceUsersFiles ==
    { [status |-> "missing", list |-> << >>],
      saveUsers(<< [nip |-> "1001", password |-> "pw", phone |-> "0812", enabled |-> "true"] >>) }

InitRoster ==
    /\ now = 24
    /\ calResult = "unknown"
    /\ usersFile \in RaceUsersFiles
    /\ lastUserOp = [op |-> "none", nip |-> Null, before |-> << >>]
    /\ configFile = [NoKeys EXCEPT !["fonnteToken"] = "tok"]
    /\ configOps = 0
    /\ lastConfig = [before |-> DEFAULT_CONFIG, body |-> NoKeys]
    /\ run = [r \in RunIds |-> RunIdle("tok")]
    /\ logWritable = TRUE
    /\ faults = 0
    /\ PageIdle /\ LogIdle /\ AuxIdle

NextRoster ==
    \/ CronTrigger
    \/ CronFetched
    \/ NextUser("cron")
    \/ Launch("cron")
    \/ Body("cron")
    \/ Close("cron")
    \/ NotifyDone("cron")
    \/ DelayDone("cron")
    \/ \E body \in RaceBodies : PostUser(body)
    \/ \E nip \in RaceNips : DeleteUserReq(nip)
    \/ \E nip \in RaceNips : ToggleUserReq(nip)
    \/ DeleteAllUsers

SpecRoster == InitRoster /\ [][NextRoster]_vars

\* ---- runs whose awaited calls all settle ----

\* two eligible employees, the first with a phone, and a messaging token
LiveRoster ==
    << [nip |-> "1001", password |-> "pw", phone |-> "0812", enabled |-> "true"],
       [nip |-> "1002", password |-> "pw", phone |-> "",     enabled |-> "true"] >>

InitLive ==
    /\ now = 24
    /\ calResult = "unknown"
    /\ usersFile \in {saveUsers(LiveRoster), [status |-> "missing", list |-> << >>]}
    /\ lastUserOp = [op |-> "none", nip |-> Null, before |-> << >>]
    /\ configFile = [NoKeys EXCEPT !["fonnteToken"] = "tok"]
    /\ configOps = 0
    /\ lastConfig = [before |-> DEFAULT_CONFIG, body |-> NoKeys]
    /\ run = [r \in RunIds |-> RunIdle("tok")]
    /\ logWritable = TRUE
    /\ faults = 0
    /\ PageIdle /\ LogIdle /\ AuxIdle

\* every await of a started run settles: the executor's steps, the notifier,
\* the timers and the directory lookup; triggers and disk faults are the
\* environment's and are not forced
Settles ==
    /\ WF_vars(CronFetched)
    /\ \A r \in RunIds :
          /\ WF_vars(NextUser(r))
          /\ WF_vars(Launch(r))
          /\ WF_vars(Body(r))
          /\ WF_vars(Close(r))
          /\ WF_vars(NotifyDone(r))
          /\ WF_vars(DelayDone(r))

SpecLive == InitLive /\ [][Next]_vars /\ Settles

\* ---- a run beside the dashboard's roster requests ----

\* an edit of employee 1002's password, and a new employee 1003
SnapBodies ==
    { [nip |-> "1002", password |-> "new", phone |-> Null, enabled |-> Null],
      [nip |-> "1003", password |-> "pw",  phone |-> Null, enabled |-> Null] }

InitSnapshot ==
    /\ now = 24
    /\ calResult = "unknown"
    /\ usersFile = saveUsers(LiveRoster)
    /\ lastUserOp = [op |-> "none", nip |-> Null, before |-> << >>]
    /\ CfgIdle
    /\ RunsIdle
    /\ PageIdle /\ LogIdle /\ AuxIdle

\* one run per behaviour, started by whichever trigger comes first
CronTriggerFirst == run["dash"].pc = "idle" /\ CronTrigger
PostTriggerFirst == run["cron"].pc = "idle" /\ PostTrigger

NextSnapshot ==
    \/ CronTriggerFirst
    \/ PostTriggerFirst
    \/ \E r \in RunIds : NextUser(r)
    \/ \E r \in RunIds : Launch(r)
    \/ \E r \in RunIds : Body(r)
    \/ \E r \in RunIds : Close(r)
    \/ \E r \in RunIds : DelayDone(r)
    \/ LogFault
    \/ \E body \in SnapBodies : PostUser(body)
    \/ DeleteUserReq("1002")
    \/ ToggleUserReq("1001")

SpecSnapshot == InitSnapshot /\ [][NextSnapshot]_vars

\* ---- the schedule label over one day ----

\* 2025-01-02 00:00 to 23:00 WITA, a working day
ScheduleInstants == 16..39
SampleMinutes == {0, 4, 5, 30, 59}

InitSchedule ==
    /\ now \in ScheduleInstants
    /\ calResult = "unknown"
    /\ \E minute \in SampleMinutes : sched = [NoSchedule EXCEPT !.minute = minute]
    /\ att = NoAttempt
    /\ ntf = NoNotify
    /\ PageIdle /\ LogIdle /\ CfgIdle /\ UserIdle /\ RunsIdle

NextSchedule == ResolveSchedule \/ ChooseColumn

SpecSchedule == InitSchedule /\ [][NextSchedule]_vars

(***************************************************************************)
(*                               properties                                *)
(***************************************************************************)

\* day of the week of a calendar date, 0 = Sunday (Sakamoto's method)
RefWeekday(ymd) ==
    LET t == << 0, 3, 2, 5, 0, 3, 5, 1, 4, 6, 2, 4 >>
        y == IF ymd[2] < 3 THEN ymd[1] - 1 ELSE ymd[1]
    IN  (y + (y \div 4) - (y \div 100) + (y \div 400) + t[ymd[2]] + ymd[3]) % 7

HolidaySet == { HOLIDAYS[k] : k \in 1..Len(HOLIDAYS) }

NonWorkingDay(t) ==
    RefWeekday(TodayString(t)) \in {0, 6} \/ TodayString(t) \in HolidaySet

\* C10: the working-day decision is false on every date of the holiday list,
\* false on every Saturday and Sunday, and true on every other Monday-Friday.
C10_WorkingDayDecision ==
    calResult # "unknown" =>
        LET date == TodayString(now)
            dow == RefWeekday(date) IN
        /\ date \in HolidaySet => calResult # "working"
        /\ dow \in {0, 6} => calResult # "working"
        /\ (dow \in 1..5 /\ date \notin HolidaySet) => calResult = "working"

C10_Witness ==
    /\ calResult = "holiday"
    /\ TodayString(now) = <<2026, 12, 25>>
    /\ RefWeekday(TodayString(now)) = 5

\* the keyword groups of the classification in their priority order
GroupMatches(g, content, url) ==
    CASE g = 1 -> (\E m \in SuccessMarkers : StrIncludes(content, m))
                    \/ (\E m \in SuccessUrlMarkers : StrIncludes(url, m))
      [] g = 2 -> \E m \in AlreadyMarkers : StrIncludes(content, m)
      [] g = 3 -> \E m \in InvalidMarkers : StrIncludes(content, m)
      [] g = 4 -> \E m \in TooEarlyMarkers : StrIncludes(content, m)
      [] g = 5 -> StrIncludes(content, LokasiMarker) /\ StrIncludes(content, TidakMarker)

GroupTexts ==
    << {"Check-in berhasil!", "Check-in berhasil! (t)"},
       {"Sudah check-in sebelumnya", "Sudah check-in (t)"},
       {"NIP atau Password salah"},
       {"Belum waktunya check-in"},
       {"Masalah lokasi/koordinat"} >>

MatchingGroups(pg) == { g \in 1..5 : GroupMatches(g, pg.content, pg.url) }

\* C9: the classifier returns the outcome of the first matching keyword group
\* in the order success, already-submitted, invalid-credentials, too-early,
\* location-problem; with no match the outcome is 'unrecognized' with success
\* false and the page title, and a screenshot is taken.
C9_FirstMatchingGroupWins ==
    outcome # NoOutcome =>
        LET M == MatchingGroups(page) IN
        IF M = {}
        THEN /\ outcome.success = FALSE
             /\ outcome.message = Msg("Response tidak dikenali: ", page.title)
             /\ shots = << "unknown_result" >>
        ELSE /\ outcome.message.text \in GroupTexts[Min(M)]
             /\ \A g \in 1..5 : g # Min(M) => outcome.message.text \notin GroupTexts[g]
             /\ shots = << >>

C9_Witness ==
    /\ outcome # NoOutcome
    /\ MatchingGroups(page) = {2, 3}
    /\ outcome.message.text = "Sudah check-in sebelumnya"

\* C6: the persisted log and the list GET /api/logs returns never hold more
\* than 100 entries; after a clear the log is empty until the next append.
C6_LogBounded ==
    /\ Len(logsFile) <= 100
    /\ Len(logsView) <= 100
    /\ logOps.cleared => logsFile = << >>
    /\ (logOps.cleared /\ logOps.last = "read") => logsView = << >>

C6_Witness ==
    /\ logOps.last = "append"
    /\ Len(logsFile) = 100
    /\ logsFile[1].ts > 1

\* C7: after POST /api/config every field of the body has the submitted value
\* and every field absent from the body has the value it had before the call.
C7_ConfigPartialMerge ==
    configOps > 0 =>
        \A k \in AllKeys :
            loadConfig(configFile)[k] =
                IF lastConfig.body[k] # Null THEN lastConfig.body[k] ELSE lastConfig.before[k]

C7_Witness ==
    /\ configOps = 2
    /\ lastConfig.body["latitude"] = "v2"
    /\ \A k \in AllKeys \ {"latitude"} : lastConfig.body[k] = Null
    /\ loadConfig(configFile)["fonnteToken"] = "v1"
    /\ loadConfig(configFile)["kodeKantor"] = "004036057000000"

\* C8: no two roster records share an identifier, and add-or-update with a
\* known identifier updates that record in place, the length unchanged.
C8_IdentifierIsKey ==
    LET users == loadUsers(usersFile)
        before == lastUserOp.before IN
    /\ \A a, b \in 1..Len(users) : a # b => users[a].nip # users[b].nip
    /\ (lastUserOp.op = "save" /\ \E k \in 1..Len(before) : before[k].nip = lastUserOp.nip) =>
          /\ Len(users) = Len(before)
          /\ \A k \in 1..Len(before) :
                /\ users[k].nip = before[k].nip
                /\ before[k].nip # lastUserOp.nip => users[k] = before[k]

C8_Witness ==
    /\ lastUserOp.op = "save"
    /\ Len(lastUserOp.before) = 3
    /\ lastUserOp.before[2].nip = lastUserOp.nip
    /\ loadUsers(usersFile)[2] # lastUserOp.before[2]

NipsOf(users) == [k \in 1..Len(users) |-> users[k].nip]

DaySkips == {"Skipping: Weekend", "Skipping: Holiday"}

\* C1: a cron run on a Saturday, Sunday or listed holiday ends at once with a
\* logged skip reason, without reading the roster or invoking the executor;
\* a run started by POST /api/trigger is never skipped for the day and
\* attempts its eligible employees whatever the day.
C1_WorkingDayGuard ==
    /\ (run["cron"].pc # "idle" /\ NonWorkingDay(now)) =>
          /\ run["cron"].pc = "done"
          /\ run["cron"].skip \in DaySkips
          /\ ~run["cron"].loaded
          /\ run["cron"].attempted = << >>
          /\ run["cron"].browsers = 0
    /\ run["dash"].skip \notin DaySkips
    /\ run["dash"].pc = "done" =>
          /\ run["dash"].attempted = NipsOf(run["dash"].users)
          /\ Len(run["dash"].attempted) >= 1

C1_Witness ==
    /\ NonWorkingDay(now)
    /\ run["cron"].pc = "done"
    /\ run["cron"].skip = "Skipping: Holiday"
    /\ run["dash"].pc = "done"
    /\ Len(run["dash"].attempted) = 2

\* the three conditions of eligibility, on the stored values
RecordEligible(u) ==
    /\ u.enabled = "true"
    /\ u.nip \notin {"", Null}
    /\ u.password \notin {"", Null}

\* C2: the executor is invoked only for roster records that are enabled and
\* have a non-empty nip and password; with an empty roster the run ends with
\* a 'no users' result and the executor is never invoked.
C2_OnlyEligibleAttempted ==
    \A r \in RunIds :
        LET q == run[r] IN
        /\ \A k \in 1..Len(q.attempted) :
              \E j \in 1..Len(q.roster) :
                  q.roster[j].nip = q.attempted[k] /\ RecordEligible(q.roster[j])
        /\ \A j \in 1..Len(q.roster) :
              ~RecordEligible(q.roster[j]) =>
                  \A k \in 1..Len(q.attempted) : q.attempted[k] # q.roster[j].nip
        /\ (q.loaded /\ q.roster = << >> /\ q.pc # "rejected") =>
              /\ q.pc \in {"done", "refused"}
              /\ q.skip \in {"No users found", "No enabled users found"}
              /\ q.attempted = << >>
              /\ q.browsers = 0

C2_Witness ==
    /\ run["dash"].pc = "done"
    /\ Len(run["dash"].roster) = 2
    /\ run["dash"].roster[1].enabled = "false"
    /\ run["dash"].attempted = << run["dash"].roster[2].nip >>
    /\ run["cron"].pc = "done"
    /\ run["cron"].attempted = run["dash"].attempted

\* C3: once the per-employee loop has started no error aborts it: the run
\* ends with its summary and every eligible employee attempted exactly once,
\* in roster order.
C3_LoopNeverAborts ==
    \A r \in RunIds :
        run[r].inLoop =>
            /\ run[r].pc # "rejected"
            /\ run[r].pc = "done" => run[r].attempted = NipsOf(run[r].users)

AllReturned(q) == \A k \in 1..Len(q.returned) : q.returned[k].kind = "result"

\* the notifier was invoked for the k-th employee and threw on the phone
NotifierThrew(q, k) ==
    /\ q.returned[k].kind = "result"
    /\ q.token \notin {"", Null}
    /\ q.users[k].phone = NumberPhone

\* the entries server.js runCheckin appends for its k-th employee
RECURSIVE EmployeeEntries(_, _)
EmployeeEntries(q, k) ==
    IF k > Len(q.users) THEN << >>
    ELSE LET nip == q.users[k].nip
             o == q.returned[k] IN
         << LogEntry("info", nip, "begin", now) >>
         \o (IF o.kind = "error" THEN << LogEntry("error", nip, "caught", now) >>
             ELSE << LogEntry(IF o.res.success THEN "success" ELSE "error", nip, "outcome", now) >>
                  \o (IF NotifierThrew(q, k) THEN << LogEntry("error", nip, "caught", now) >>
                      ELSE << >>))
         \o EmployeeEntries(q, k + 1)

\* C4 as stated: after a run over n employees whose attempts all returned an
\* outcome the log holds exactly n new entries, the i-th of type success or
\* error as o_i.success says, and the summary counts add up to n.
C4_ExactlyOneEntryPerEmployee ==
    /\ (run["dash"].pc = "done" /\ AllReturned(run["dash"])) =>
          /\ Len(logsFile) = Len(run["dash"].users)
          /\ \A k \in 1..Len(logsFile) :
                logsFile[k].type = IF run["dash"].returned[k].res.success THEN "success" ELSE "error"
    /\ (run["cron"].pc = "done" /\ run["cron"].inLoop /\ AllReturned(run["cron"])) =>
          run["cron"].summary[1] + run["cron"].summary[2] = Len(run["cron"].users)

\* C4 (amended): a finished dashboard run has appended an info entry at its
\* start and end and, per employee in roster order, an info entry followed by
\* the outcome entry (type success iff o_i.success; an error entry when the
\* attempt threw), plus one more error entry when the notifier threw; the
\* scheduler's summary counts the successful outcomes and one failure for
\* every other outcome, thrown attempt and thrown notification.
C4_RunLogAndSummary ==
    /\ run["dash"].pc = "done" =>
          logsFile = << LogEntry("info", Null, "start", now) >>
                       \o EmployeeEntries(run["dash"], 1)
                       \o << LogEntry("info", Null, "end", now) >>
    /\ (run["cron"].pc = "done" /\ run["cron"].inLoop) =>
          LET q == run["cron"]
              n == Len(q.users)
              good == { k \in 1..n : q.returned[k].kind = "result" /\ q.returned[k].res.success }
              threw == { k \in 1..n : NotifierThrew(q, k) } IN
          /\ Len(q.returned) = n
          /\ q.summary[1] = Cardinality(good)
          /\ q.summary[1] + q.summary[2] = n + Cardinality(threw)

C4_Witness ==
    /\ run["dash"].pc = "done"
    /\ Len(run["dash"].returned) = 2
    /\ AllReturned(run["dash"])
    /\ run["dash"].returned[1].res.success
    /\ run["dash"].returned[2].res.message.text = "NIP atau Password salah"
    /\ Len(logsFile) = 6
    /\ logsFile[3].type = "success"
    /\ logsFile[5].type = "error"
    /\ run["cron"].pc = "done"
    /\ AllReturned(run["cron"])
    /\ run["cron"].summary = << 1, 1 >>

\* C5: a run has at most one browser session open at any moment, and none is
\* open when it launches the next one.
C5_OneBrowserPerRun ==
    \A r \in RunIds :
        /\ run[r].browsers <= 1
        /\ run[r].pc \in {"loop", "launch"} => run[r].browsers = 0

C5_Witness ==
    \E r \in RunIds :
        /\ run[r].pc = "body"
        /\ run[r].i = 1
        /\ run[r].browsers = 1
        /\ Len(run[r].returned) = 1

\* the events of an attempt that satisfy a test, as positions
EventsAt(events, op, arg) ==
    { k \in 1..Len(events) : events[k].op = op /\ events[k].arg = arg }

\* C11: when an attempt returns or throws, every browser session it launched
\* has been closed, whatever the outcome; and when it throws after the page
\* was created, an 'error' screenshot was taken just before the close.
C11_BrowserClosedAfterAttempt ==
    LET ev == att.events
        closes == EventsAt(ev, "close", "")
        errorShots == EventsAt(ev, "shot", "error") IN
    /\ att.open <= 1
    /\ att.ended # "no" =>
          /\ att.open = 0
          /\ Cardinality(closes) = Cardinality(EventsAt(ev, "launch", ""))
          /\ closes # {} => closes = {Len(ev)}
    /\ (att.ended = "thrown" /\ att.hasPage) =>
          /\ errorShots = {Len(ev) - 1}
          /\ closes = {Len(ev)}
    /\ (att.ended = "thrown" /\ ~att.hasPage) => errorShots = {}
    /\ att.ended = "returned" => errorShots = {}

C11_Witness ==
    /\ att.ended = "thrown"
    /\ att.error.kind = "form"
    /\ att.open = 0
    /\ Len(att.events) >= 2
    /\ att.events[Len(att.events) - 1] = Ev("shot", "error", 0)
    /\ att.events[Len(att.events)] = Ev("close", "", 0)

\* the navigations of an attempt that failed, as positions
FailedNavs(events) ==
    { k \in 1..Len(events) : events[k].op = "goto" /\ events[k].arg # "ok" }

OutcomeTexts == UNION { GroupTexts[g] : g \in 1..5 } \cup {"Response tidak dikenali: "}

\* C12: an attempt whose navigation failed on every try, or whose login form
\* never appeared, ends by throwing (the form error carries the current URL
\* and follows the 'form_not_found' screenshot); an attempt that reached a
\* page after submit returns a structured Outcome for it, whichever of the
\* six page states it is, and throws nothing.
C12_ThrownOrOutcome ==
    att.ended # "no" =>
        LET ev == att.events
            formShots == EventsAt(ev, "shot", "form_not_found") IN
        /\ Cardinality(FailedNavs(ev)) = NavRetries =>
              /\ att.ended = "thrown"
              /\ att.error.kind = "nav"
        /\ formShots # {} =>
              /\ att.ended = "thrown"
              /\ att.error.kind = "form"
              /\ att.error.detail \in FormUrls
        /\ att.error.kind = "form" => formShots # {}
        /\ att.error.kind \in {"nav", "form"} => att.result = NoOutcome
        /\ att.column # 0 =>
              /\ att.ended = "returned"
              /\ att.error = NoError
              /\ att.result.message.text \in OutcomeTexts
              /\ att.result.success = (MatchingGroups(page) \cap {1, 2} # {})
        /\ att.ended = "returned" => att.column # 0

C12_Witness ==
    /\ att.ended = "returned"
    /\ MatchingGroups(page) = {}
    /\ att.result.success = FALSE
    /\ att.result.message = Msg("Response tidak dikenali: ", "Bad Gateway")
    /\ EventsAt(att.events, "shot", "unknown_result") # {}

\* C13: the notifier never propagates a failure and never retries: whatever
\* the phone, the token and the gateway's answer, the call returns normally
\* after at most one request, and a request that was not delivered (network
\* error, unreadable or non-success answer) has been logged.
C13_NotifierNeverThrows ==
    ntf.ended # "no" =>
        /\ ntf.ended = "returned"
        /\ ntf.requests <= 1
        /\ ntf.requests = 1 => Len(ntf.logged) = 1

Max(S) == CHOOSE x \in S : \A y \in S : x >= y

Navs(events) == { k \in 1..Len(events) : events[k].op = "goto" }

\* every navigation but the first comes right after a 5-second pause, and
\* every pause right after a failed navigation
PauseBeforeEachRetry(events) ==
    /\ \A k \in Navs(events) :
          k # Min(Navs(events)) =>
              /\ events[k - 1] = Ev("sleep", "", 5000)
              /\ (k - 2) \in FailedNavs(events)
    /\ \A k \in 1..Len(events) :
          events[k].op = "sleep" => (k - 1) \in FailedNavs(events)

\* nothing is navigated to after the first navigation that succeeded
SuccessEndsRetrying(events) ==
    \A k \in Navs(events) :
        events[k].arg = "ok" => \A j \in (k + 1)..Len(events) : events[j].op \notin {"goto", "sleep"}

\* the navigation error on its way to the caller is the last one page.goto threw
LastErrorSurfaces(a) ==
    a.error.kind = "nav" =>
        /\ FailedNavs(a.events) = Navs(a.events)
        /\ a.error.detail = a.events[Max(FailedNavs(a.events))].arg

\* C14 as stated: navigation is retried up to 3 times, so the navigation error
\* reaches the caller when the third retry has failed; a 5-second pause
\* precedes each retry, the first success ends the retrying and the error
\* thrown is the last one.
C14_ThreeRetries ==
    /\ Cardinality(Navs(att.events)) - 1 <= 3
    /\ att.error.kind = "nav" => Cardinality(Navs(att.events)) - 1 = 3
    /\ PauseBeforeEachRetry(att.events)
    /\ SuccessEndsRetrying(att.events)
    /\ LastErrorSurfaces(att)

\* C14 (amended): the target page is navigated to at most 3 times in all,
\* that is retried at most twice; the navigation error reaches the caller
\* exactly when the third navigation has failed; a 5-second pause precedes
\* each retry, the first success ends the retrying and the error thrown is
\* the one of the last failed navigation.
C14_NavigationRetries ==
    /\ Cardinality(Navs(att.events)) <= 3
    /\ att.error.kind = "nav" => Cardinality(FailedNavs(att.events)) = 3
    /\ (Cardinality(FailedNavs(att.events)) = 3 /\ att.pc # "goto") => att.error.kind = "nav"
    /\ PauseBeforeEachRetry(att.events)
    /\ SuccessEndsRetrying(att.events)
    /\ LastErrorSurfaces(att)

C14_Witness ==
    /\ att.ended = "thrown"
    /\ att.error = [kind |-> "nav", detail |-> "Navigation timeout of 60000 ms exceeded"]
    /\ Cardinality(FailedNavs(att.events)) = 3
    /\ att.events[Min(Navs(att.events))].arg = "net::ERR_NAME_NOT_RESOLVED"
    /\ Cardinality({ k \in 1..Len(att.events) : att.events[k].op = "sleep" }) = 2

PhonePresent(u) == u.phone \notin {"", Null}

\* C15: the notifier is invoked for an employee exactly when a token and the
\* employee's phone are both present and the outcome has been returned, and
\* the loop never waits on a notification: there is no state in which a run
\* is suspended until sendWhatsAppNotification settles.
C15_NotifierNotAwaited ==
    \A r \in RunIds :
        LET q == run[r] IN
        /\ q.pc # "notify"
        /\ \A k \in 1..Len(q.returned) :
              (\E j \in 1..Len(q.notified) : q.notified[j] = q.users[k].nip)
                  <=> /\ q.returned[k].kind = "result"
                      /\ q.token \notin {"", Null}
                      /\ PhonePresent(q.users[k])

\* C16: the inter-user sleep of 3 to 8 seconds runs after every employee but
\* the last, whether the attempt returned or threw, and never after the last:
\* a sleep lies between any two consecutive executor invocations of a run.
C16_SleepBetweenEmployees ==
    \A r \in RunIds :
        LET q == run[r]
            slept == { q.sleeps[j] : j \in 1..Len(q.sleeps) } IN
        /\ \A k \in 2..Len(q.attempted) : (k - 1) \in slept
        /\ Len(q.users) \notin slept

\* the column the local hour stands for: morning, midday, evening
HourColumn(t) == IF WitaHour(t) < 12 THEN 1 ELSE IF WitaHour(t) < 16 THEN 2 ELSE 3

\* the HH:MM:SS the sample cells of a session column carry
CellTimes == << "7:15:02", "12:05:33", "17:01:09" >>

\* the first data row has a cell for column c and that cell carries a time
CellHasTime(table, c) ==
    /\ table.exists
    /\ Len(table.rows) >= 1
    /\ Len(table.rows[1]) > c
    /\ table.rows[1][c + 1] = TimeCells[c]

\* C17: the extraction reads column 1, 2 or 3 of the first data row as the
\* local hour is below 12, in [12, 16) or from 16 on and reports the time in
\* that cell; whenever it finds none (no table, no row, too few cells, no
\* time in the cell, an exception) the reported time is the current local
\* time, so a success outcome always carries a non-empty check-in time.
C17_CheckinTimeReported ==
    att.column # 0 =>
        LET c == HourColumn(now) IN
        /\ att.column = c
        /\ att.result.success =>
              /\ att.result.checkinTime \notin {Null, ""}
              /\ att.result.checkinTime =
                    IF att.evalOk /\ CellHasTime(att.table, c) THEN CellTimes[c]
                    ELSE LocalTimeString(now)

\* C18: runs are not serialized: POST /api/trigger starts its run whatever
\* the scheduler's run is doing, a run launches its browser whatever sessions
\* the other run has open, and two sessions of different runs can be open at
\* the same time.
C18_RunsNotSerialized ==
    /\ run["dash"].pc = "idle" => ENABLED PostTrigger
    /\ \A r \in RunIds : run[r].pc = "launch" => ENABLED Launch(r)

C18_Witness ==
    /\ run["cron"].pc = "body"
    /\ run["cron"].browsers = 1
    /\ run["dash"].pc = "body"
    /\ run["dash"].browsers = 1
    /\ run["dash"].i = 1

\* a roster as getUsers derives it from the directory lookup
FromLookupOnly(users) ==
    \A k \in 1..Len(users) :
        /\ users[k].password = users[k].nip
        /\ users[k].phone = ""
        /\ users[k].enabled = "true"

C20_IoErrorsNeverAbort ==
    /\ (usersFile.status = "malformed" /\ run["cron"].pc # "idle" /\ ~NonWorkingDay(now)) =>
          /\ run["cron"].pc = "done"
          /\ run["cron"].skip = "No users found"
    /\ \A r \in RunIds : run[r].pc # "rejected"

\* C21: an append puts the new entry last and keeps before it the most recent
\* (up to 99) prior entries, unchanged and in their order; a log that held 100
\* entries loses exactly its oldest one.
C21_AppendOnlyTruncation ==
    [][ (logOps'.last = "append" /\ logOps'.n # logOps.n) =>
            LET old  == logsFile
                new  == logsFile'
                kept == IF Len(old) <= 99 THEN Len(old) ELSE 99
            IN  /\ Len(new) = kept + 1
                /\ new[Len(new)].ts = logOps'.n
                /\ \A j \in 1..kept : new[j] = old[Len(old) - kept + j]
                /\ Len(old) = 100 => \A j \in 1..99 : new[j] = old[j + 1] ]_vars

C21_Witness ==
    /\ logOps.last = "append"
    /\ logOps.done >= 2
    /\ Len(logsFile) = 100
    /\ logsFile[100].ts = logOps.n
    /\ logsFile[1].ts = logOps.n - 99
    /\ logOps.n > 101

\* C22: the configured coordinates are written into the location field only
\* when the field exists and holds no coordinate pair (it is empty or has no
\* comma); a field that holds a pair, and an absent field, are left as they
\* are; and a timeout of the wait for the field does not end the attempt,
\* which goes on to submit.
C22_LocationInjection ==
    att.loc.wait # "none" =>
        LET before == att.loc.before
            after  == att.loc.after
            configured == Latitude \o << ",", " " >> \o Longitude
            unpopulated == before.value = << >>
                            \/ \A k \in 1..Len(before.value) : before.value[k] # ","
        IN  /\ after.exists = before.exists
            /\ (before.exists /\ unpopulated) => after.value = configured
            /\ ~(before.exists /\ unpopulated) => after = before
            /\ after # before => (before.exists /\ unpopulated)
            /\ att.error.kind \notin {"fill", "read"} => att.error = NoError
            /\ (att.pc = "submit" /\ att.loc.wait = "timeout") =>
                  (att.error = NoError /\ ENABLED AttSubmit)

C22_Witness ==
    /\ att.ended = "returned"
    /\ att.loc.wait = "timeout"
    /\ att.loc.before = [exists |-> TRUE, value |-> << "N", "a", "N" >>]
    /\ att.loc.after.value = Latitude \o << ",", " " >> \o Longitude
    /\ EventsAt(att.events, "submit", "") # {}

\* the loop has no timer of its own: while the executor has not settled for
\* the current employee the run can take no other step, is not at its end
\* and has attempted nobody after that employee
StuckAttemptBlocksRun ==
    \A r \in RunIds :
        run[r].pc \in {"launch", "body"} =>
            /\ ~ENABLED NextUser(r)
            /\ ~ENABLED DelayDone(r)
            /\ ~ENABLED NotifyDone(r)
            /\ Len(run[r].attempted) = run[r].i + 1
            /\ run[r].summary = << >>

\* C23: a run that entered its loop reaches its terminal state (the summary
\* of index.js, the closing log entry of server.js) provided every executor
\* and notifier call it awaits settles.
C23_RunReachesSummary ==
    \A r \in RunIds : run[r].inLoop ~> run[r].pc = "done"

\* C24: a toggle flips the enabled flag of the one record with the given
\* identifier and changes nothing else; a second toggle of the same
\* identifier gives the roster back; and a toggle of an identifier that is
\* not in the roster leaves users.json as it was, not even created.
C24_ToggleEnabled ==
    [][ (lastUserOp'.op = "toggle" /\ (lastUserOp' # lastUserOp \/ usersFile' # usersFile)) =>
            LET before == loadUsers(usersFile)
                after  == loadUsers(usersFile')
                nip    == lastUserOp'.nip
                hit    == { k \in 1..Len(before) : before[k].nip = nip }
            IN  /\ Len(after) = Len(before)
                /\ Cardinality(hit) <= 1
                /\ \A k \in 1..Len(before) :
                      IF k \in hit
                      THEN /\ after[k].enabled \in {"true", "false"}
                           /\ after[k].enabled # before[k].enabled
                           /\ \A f \in UserFields \ {"enabled"} : after[k][f] = before[k][f]
                      ELSE after[k] = before[k]
                /\ hit = {} => usersFile' = usersFile
                /\ hit # {} => usersFile'.status = "ok"
                /\ ToggleUser(after, nip) = before ]_vars

C24_Witness ==
    LET users == loadUsers(usersFile) IN
    /\ lastUserOp.op = "toggle"
    /\ Len(users) = 2
    /\ lastUserOp.nip = users[2].nip
    /\ Len(lastUserOp.before) = 2
    /\ lastUserOp.before[2].enabled = "false"
    /\ users[2].enabled = "true"
    /\ users[1] = lastUserOp.before[1]

\* C25: when the scheduler's run ends, its results list has one entry per
\* eligible employee, in roster order, and the two counts of the summary add
\* up to the number of eligible employees.
C25_OneResultPerEmployee ==
    LET q == run["cron"] IN
    (q.pc = "done" /\ q.inLoop) =>
        /\ Len(q.results) = Len(q.users)
        /\ \A k \in 1..Len(q.results) : k <= Len(q.users) => q.results[k].nip = q.users[k].nip
        /\ q.summary[1] + q.summary[2] = Len(q.users)

\* the identifiers of the records of a roster that are enabled and have an
\* identifier and a password
EligibleNips(roster) == NipsOf(SelectSeq(roster, RecordEligible))

Pauses(events) == { k \in 1..Len(events) : events[k].op = "sleep" }

\* C27: one attempt requests the target page at most 3 times, the first
\* navigation included; each pause lasts 5 seconds, comes right after a
\* failed navigation and is followed by another navigation; there is no
\* pause after a successful navigation nor after the third failure.
C27_PauseOnlyBetweenNavigations ==
    LET ev == att.events
        navs == Navs(ev)
        failed == FailedNavs(ev)
        pauses == Pauses(ev) IN
    /\ Cardinality(navs) <= 3
    /\ Cardinality(pauses) <= 2
    /\ \A k \in pauses :
          /\ (k - 1) \in failed
          /\ ev[k].ms = 5000
          /\ IF k < Len(ev) THEN ev[k + 1].op = "goto"
             ELSE att.pc = "goto" /\ ENABLED AttGoto
    /\ \A k \in navs \ failed : (k + 1) \notin pauses
    /\ Cardinality(failed) = 3 => (Max(failed) + 1) \notin pauses
    /\ (att.ended # "no" /\ navs # {}) => Cardinality(pauses) = Cardinality(navs) - 1

C27_Witness ==
    /\ att.ended = "returned"
    /\ Cardinality(Navs(att.events)) = 3
    /\ Cardinality(FailedNavs(att.events)) = 2
    /\ att.events[Max(Navs(att.events))].arg = "ok"
    /\ Pauses(att.events) = { k + 1 : k \in FailedNavs(att.events) }
    /\ att.events[Max(Navs(att.events)) + 1].op = "shot"

\* the positions of the employees of a run the notifier was invoked for
NotifiedAt(q) ==
    { k \in 1..Len(q.users) : \E j \in 1..Len(q.notified) : q.notified[j] = q.users[k].nip }

\* C28: the notifier is never invoked for an employee whose attempt threw,
\* token and phone or not: every employee it was invoked for had an Outcome
\* returned, which was recorded before (an outcome entry in the log for the
\* dashboard's run, a results entry for the scheduler's), and it is invoked
\* at most once per employee.
C28_NoNotificationAfterThrow ==
    \A r \in RunIds :
        LET q == run[r] IN
        /\ Len(q.notified) = Cardinality(NotifiedAt(q))
        /\ \A k \in NotifiedAt(q) :
              /\ k <= Len(q.returned)
              /\ q.returned[k].kind = "result"
              /\ IF r = "dash"
                 THEN \E j \in 1..Len(logsFile) :
                          logsFile[j] = LogEntry(OutcomeType(q.returned[k].res),
                                                 q.users[k].nip, "outcome", now)
                 ELSE \E j \in 1..Len(q.results) :
                          q.results[j] = [nip |-> q.users[k].nip,
                                          success |-> q.returned[k].res.success,
                                          thrown |-> FALSE]
        /\ \A k \in 1..Len(q.returned) :
              q.returned[k].kind = "error" => k \notin NotifiedAt(q)

C28_Witness ==
    \E r \in RunIds :
        LET q == run[r] IN
        /\ q.pc = "done"
        /\ q.token = "tok"
        /\ Len(q.users) = 2
        /\ q.users[1].phone = "0812"
        /\ q.users[2].phone = NumberPhone
        /\ q.returned[1].kind = "error"
        /\ q.returned[2].kind = "result"
        /\ q.notified = << q.users[2].nip >>

\* the label the windows and the fallback of the claim give a time of day
LabelAt(hour, minute) ==
    LET m == hour * 60 + minute IN
    IF m < 12 * 60 THEN "Pagi" ELSE IF m < 16 * 60 THEN "Siang" ELSE "Sore"

LabelColumn == [Pagi |-> 1, Siang |-> 2, Sore |-> 3]

\* C29: at every time of day getScheduleName returns one of Pagi, Siang,
\* Sore (the window's label inside a window, else Pagi before 12:00, Siang
\* before 16:00, Sore from 16:00), and the column the executor selects at
\* the same clock time is the one of that label: 1, 2, 3.
C29_LabelAgreesWithColumn ==
    /\ sched.name # Null =>
          /\ sched.name \in {"Pagi", "Siang", "Sore"}
          /\ sched.name = LabelAt(WitaHour(now), sched.minute)
    /\ (sched.name # Null /\ sched.column # 0) => sched.column = LabelColumn[sched.name]

\* the pages that show marker m and nothing else but a filler character
PagesShowing(m) == { m, << "x" >> \o m, m \o << "x" >> }

\* C30: an Outcome has success true exactly when the page matched the
\* success group or the already-submitted group; and each of the four
\* already-submitted markers, shown on a page that has nothing else to match,
\* gives the 'already checked in' message, not the plain success message.
C30_AlreadyMarkersReachable ==
    outcome # NoOutcome =>
        /\ outcome.success = (MatchingGroups(page) \cap {1, 2} # {})
        /\ \A m \in AlreadyMarkers :
              (page.content \in PagesShowing(m) /\ ~IncludesAny(page.url, SuccessUrlMarkers)) =>
                  outcome.message.text \in GroupTexts[2]

====
